---- MODULE Spec2Model ----
(***************************************************************************)
(* Usage Enforcement Engine of HUE (hiddify/HUE, Go).                      *)
(*                                                                         *)
(* The model holds the metadata store (users, packages, manager packages,  *)
(* node and service counters), the in-memory state (user cache, session    *)
(* tables, penalties, disconnect queue) and the usage pipeline             *)
(* Engine.ProcessUsageReport with the quota, session and penalty           *)
(* components it calls.  Time is a counter of ticks.                       *)
(***************************************************************************)
EXTENDS Integers, Sequences, FiniteSets, TLC

(***************************************************************************)
(* Bounds of the model.                                                    *)
(***************************************************************************)
MaxTime == 2
MaxDelta == 2
MaxTotal == 5
MaxQueue == 2
Window == 1
PenaltyDuration == 1
TotalLimit == 3
PartLimit == 2
MgrLimit == 4
MaxLimit == 2
MaxBatch == 2
MaxBuffer == 2
FlushSize == 3
MaxChain == 4            \* ids a traversal of the manager chain collects at most

(***************************************************************************)
(* Identifiers.  Every user owns the package of the same index; u1 belongs *)
(* to manager "child", whose parent is "root"; u2 belongs to "root".       *)
(***************************************************************************)
Nil == "nil"              \* no identifier
None == [none |-> TRUE]   \* no record
NoTime == 0 - 1           \* no time
Users == {"u1", "u2"}
SessionIds == {"s1", "s2", "s3"}
MgrIds == {"root", "child"}
NodeId == "node-1"
ServiceId == "svc-1"
PkgOf(u) == IF u = "u1" THEN "pkg-1" ELSE "pkg-2"
PkgIds == {PkgOf(u) : u \in Users}
ManagerOfUser(u) == IF u = "u1" THEN "child" ELSE "root"

UserStatuses == {"active", "suspended", "expired", "finish", "inactive"}
EnforcementModes == {"soft", "default", "hard"}

VARIABLES
  users,              \* users table: status, active_package_id, manager_id
  packages,           \* packages table
  managers,           \* managers table: parent_id
  managerPackages,    \* manager_packages table
  nodeUsage,          \* nodes table: current_upload, current_download
  serviceUsage,       \* services table: current_upload, current_download
  cacheUsers,         \* MemoryCache.users
  sessions,           \* MemoryCache.sessions
  penalties,          \* MemoryCache.penalties
  disconnectQueue,    \* MemoryCache.disconnectQueue
  managerEnforcementMode, \* QuotaEngine.managerEnforcementMode
  now,                \* the clock
  last,               \* the last call: its input, its result, the events it emitted
  procs,              \* the handlers in flight (concurrent specification)
  receivers,          \* ReceiverHub.receivers: filter, buffer size and channel content
  activeDB,           \* ActiveDB: the in-memory buffer and the usage_reports table
  ownerAuthKey,       \* the owner_auth_key row (key_id = 1) of the user database
  lockManager         \* LockManager: userLocks, nodeLocks and serviceLocks

vars == <<users, packages, managers, managerPackages, nodeUsage, serviceUsage, cacheUsers,
          sessions, penalties, disconnectQueue, managerEnforcementMode, now,
          last, procs, receivers, activeDB, ownerAuthKey, lockManager>>

(***************************************************************************)
(* The mutable program state as one record, so that the steps of a handler *)
(* compose.  events is the tail of the event store written by the handler  *)
(* that is running.                                                        *)
(***************************************************************************)
CurState ==
  [users |-> users, packages |-> packages, managers |-> managers,
   managerPackages |-> managerPackages,
   nodeUsage |-> nodeUsage, serviceUsage |-> serviceUsage,
   cacheUsers |-> cacheUsers, sessions |-> sessions, penalties |-> penalties,
   disconnectQueue |-> disconnectQueue, events |-> << >>]

SetState(s) ==
  /\ users' = s.users
  /\ packages' = s.packages
  /\ managers' = s.managers
  /\ managerPackages' = s.managerPackages
  /\ nodeUsage' = s.nodeUsage
  /\ serviceUsage' = s.serviceUsage
  /\ cacheUsers' = s.cacheUsers
  /\ sessions' = s.sessions
  /\ penalties' = s.penalties
  /\ disconnectQueue' = s.disconnectQueue

(***************************************************************************)
(* domain.Package, domain.User, domain.ManagerPackage predicates.          *)
(***************************************************************************)
PackageIsActive(p) == p.status = "active"

PackageIsExpired(p, t) == IF p.expires_at = NoTime THEN FALSE ELSE t > p.expires_at

(* HasTrafficRemaining that still answers true at the limit. *)
HasTrafficRemaining_AtLimit(p) ==
  LET total == IF p.total_limit = 0 THEN p.total_traffic ELSE p.total_limit
  IN IF total = 0 THEN TRUE ELSE p.current_total <= total

HasTrafficRemaining(p) ==
  LET total == IF p.total_limit = 0 THEN p.total_traffic ELSE p.total_limit
  IN IF total = 0 THEN TRUE ELSE p.current_total < total

PackageCanUse(p, t) ==
  PackageIsActive(p) /\ ~PackageIsExpired(p, t) /\ HasTrafficRemaining(p)

UserCanConnect(u) == u.status = "active" /\ u.active_package_id # Nil

(* IsActive that takes every package that exists for active. *)
ManagerPackageIsActive_Any(mp) == mp # None

ManagerPackageIsActive(mp) == mp # None /\ mp.status = "active"

(***************************************************************************)
(* UserDB reads and writes.                                                *)
(*                                                                         *)
(* A row of the packages table as the scans return it: total_limit is      *)
(* filled from total_traffic.                                              *)
(***************************************************************************)
ScanPackage(row) == row @@ [total_limit |-> row.total_traffic]

GetPackage(s, id) ==
  IF id \in DOMAIN s.packages THEN ScanPackage(s.packages[id]) ELSE None

GetPackageByUserID(s, u) ==
  IF s.users[u].active_package_id \in DOMAIN s.packages
    THEN ScanPackage(s.packages[s.users[u].active_package_id])
    ELSE None

UpdateUserStatus(s, u, status) ==
  [s EXCEPT !.users[u].status = status]

UpdatePackageStatus(s, id, status) ==
  [s EXCEPT !.packages[id].status = status]

(* UpdatePackageUsage that leaves current_total as it was. *)
UpdatePackageUsage_NoTotal(s, id, upload, download) ==
  [s EXCEPT !.packages[id].current_upload = @ + upload,
            !.packages[id].current_download = @ + download]

UpdatePackageUsage(s, id, upload, download) ==
  [s EXCEPT !.packages[id].current_upload = @ + upload,
            !.packages[id].current_download = @ + download,
            !.packages[id].current_total = @ + upload + download]

UpdateNodeUsage(s, id, upload, download) ==
  IF id \in DOMAIN s.nodeUsage
    THEN [s EXCEPT !.nodeUsage[id].current_upload = @ + upload,
                   !.nodeUsage[id].current_download = @ + download]
    ELSE s

UpdateServiceUsage(s, id, upload, download) ==
  IF id \in DOMAIN s.serviceUsage
    THEN [s EXCEPT !.serviceUsage[id].current_upload = @ + upload,
                   !.serviceUsage[id].current_download = @ + download]
    ELSE s

(***************************************************************************)
(* The manager tree: the chain from a manager up to its root, the limit    *)
(* check along the chain and the application of a usage delta to it.       *)
(***************************************************************************)
RECURSIVE GetManagerAncestors(_, _)
GetManagerAncestors(s, managerID) ==
  IF managerID = "" THEN << >>
  ELSE IF managerID \notin DOMAIN s.managers THEN <<managerID>>
  ELSE IF s.managers[managerID].parent_id = Nil \/ s.managers[managerID].parent_id = ""
    THEN <<managerID>>
  ELSE <<managerID>> \o GetManagerAncestors(s, s.managers[managerID].parent_id)

GetManagerPackage(s, id) ==
  IF id \in DOMAIN s.managerPackages THEN s.managerPackages[id] ELSE None

ManagerDenyReason(pkg, upload, download, sessionDelta, onlineUsersDelta, activeUsersDelta) ==
  IF pkg.total_limit > 0 /\ pkg.current_total + upload + download > pkg.total_limit
    THEN "manager total limit reached"
  ELSE IF pkg.upload_limit > 0 /\ pkg.current_upload + upload > pkg.upload_limit
    THEN "manager upload limit reached"
  ELSE IF pkg.download_limit > 0 /\ pkg.current_download + download > pkg.download_limit
    THEN "manager download limit reached"
  ELSE IF pkg.max_sessions > 0 /\ pkg.current_sessions + sessionDelta > pkg.max_sessions
    THEN "manager max sessions reached"
  ELSE IF pkg.max_online_users > 0
          /\ pkg.current_online_users + onlineUsersDelta > pkg.max_online_users
    THEN "manager max online users reached"
  ELSE IF pkg.max_active_users > 0
          /\ pkg.current_active_users + activeUsersDelta > pkg.max_active_users
    THEN "manager max active users reached"
  ELSE ""

RECURSIVE CheckManagerChain(_, _, _, _, _, _, _)
CheckManagerChain(s, ids, upload, download, sessionDelta, onlineUsersDelta, activeUsersDelta) ==
  IF ids = << >> THEN [Allowed |-> TRUE, ManagerID |-> "", Reason |-> ""]
  ELSE LET pkg == GetManagerPackage(s, Head(ids))
           rest == CheckManagerChain(s, Tail(ids), upload, download, sessionDelta,
                                     onlineUsersDelta, activeUsersDelta)
       IN IF pkg = None \/ ~ManagerPackageIsActive(pkg) THEN rest
          ELSE LET why == ManagerDenyReason(pkg, upload, download, sessionDelta,
                                            onlineUsersDelta, activeUsersDelta)
               IN IF why # ""
                    THEN [Allowed |-> FALSE, ManagerID |-> Head(ids), Reason |-> why]
                    ELSE rest

CheckManagerLimits(s, managerID, upload, download, sessionDelta, onlineUsersDelta, activeUsersDelta) ==
  IF managerID = "" THEN [Allowed |-> TRUE, ManagerID |-> "", Reason |-> ""]
  ELSE CheckManagerChain(s, GetManagerAncestors(s, managerID), upload, download,
                         sessionDelta, onlineUsersDelta, activeUsersDelta)

Max0(x) == IF x < 0 THEN 0 ELSE x

ManagerChainIds(s, managerID) ==
  {GetManagerAncestors(s, managerID)[i] : i \in 1..Len(GetManagerAncestors(s, managerID))}

(* ApplyManagerUsageDelta that updates the manager itself and no ancestor. *)
ApplyManagerUsageDelta_SelfOnly(s, managerID, upload, download, sessionDelta, onlineUsersDelta, activeUsersDelta) ==
  IF managerID = "" THEN s
  ELSE [s EXCEPT !.managerPackages[managerID] =
         [@ EXCEPT !.current_upload = Max0(@ + upload),
                   !.current_download = Max0(@ + download),
                   !.current_total = Max0(@ + upload + download),
                   !.current_sessions = Max0(@ + sessionDelta),
                   !.current_online_users = Max0(@ + onlineUsersDelta),
                   !.current_active_users = Max0(@ + activeUsersDelta)]]

ApplyManagerUsageDelta(s, managerID, upload, download, sessionDelta, onlineUsersDelta, activeUsersDelta) ==
  IF managerID = "" THEN s
  ELSE [s EXCEPT !.managerPackages =
         [m \in DOMAIN s.managerPackages |->
            IF m \in ManagerChainIds(s, managerID)
              THEN [s.managerPackages[m] EXCEPT
                      !.current_upload = Max0(@ + upload),
                      !.current_download = Max0(@ + download),
                      !.current_total = Max0(@ + upload + download),
                      !.current_sessions = Max0(@ + sessionDelta),
                      !.current_online_users = Max0(@ + onlineUsersDelta),
                      !.current_active_users = Max0(@ + activeUsersDelta)]
              ELSE s.managerPackages[m]]]

(***************************************************************************)
(* UserDB.CreateManager: the new manager's package is validated against    *)
(* the package of the parent it names, then the managers row and the       *)
(* manager_packages row are inserted in one transaction; the insert fails  *)
(* on an id that exists (primary key).                                     *)
(***************************************************************************)
LimitFields ==
  {"total_limit", "upload_limit", "download_limit", "max_sessions",
   "max_online_users", "max_active_users"}

validateChildPackageAgainstParent(child, parent) ==
  IF child = None \/ parent = None THEN TRUE
  ELSE \A f \in LimitFields : ~(parent[f] > 0 /\ child[f] > parent[f])

(* CreateManager that does not look for the package of the parent. *)
CreateManagerOk_AnyParent(s, id, parentID, pkg) ==
  /\ pkg # None
  /\ id \notin DOMAIN s.managers

CreateManagerOk(s, id, parentID, pkg) ==
  /\ pkg # None
  /\ (parentID # Nil /\ parentID # "")
       => /\ GetManagerPackage(s, parentID) # None
          /\ validateChildPackageAgainstParent(pkg, GetManagerPackage(s, parentID))
  /\ id \notin DOMAIN s.managers

CreateManager(s, id, parentID, pkg) ==
  IF CreateManagerOk(s, id, parentID, pkg)
    THEN [s EXCEPT !.managers = (id :> [parent_id |-> parentID]) @@ @,
                   !.managerPackages = (id :> pkg) @@ @]
    ELSE s

(***************************************************************************)
(* MemoryCache: user cache.  SetUser stores a fresh entry, whose counters  *)
(* are zero; UpdateUserUsage adds to an entry that exists.                 *)
(***************************************************************************)
SetUser(s, u, status, packageID, maxConcurrent) ==
  [s EXCEPT !.cacheUsers[u] =
     [Status |-> status, ActivePackageID |-> packageID,
      CurrentUpload |-> 0, CurrentDownload |-> 0, CurrentTotal |-> 0,
      MaxConcurrent |-> maxConcurrent]]

GetUserCached(s, u) == s.cacheUsers[u]

UpdateUserUsage(s, u, upload, download) ==
  IF s.cacheUsers[u] # None
    THEN [s EXCEPT !.cacheUsers[u].CurrentUpload = @ + upload,
                   !.cacheUsers[u].CurrentDownload = @ + download,
                   !.cacheUsers[u].CurrentTotal = @ + upload + download]
    ELSE s

(***************************************************************************)
(* MemoryCache: sessions of a user, a map from session id to its entry.    *)
(***************************************************************************)
HasSession(sc, sessionID) == sc[sessionID] # None

GetActiveSessionCount(sc, t) ==
  Cardinality({sid \in DOMAIN sc : sc[sid] # None /\ t - sc[sid].LastSeenAt <= Window})

GetSessions(sc) == {sid \in DOMAIN sc : sc[sid] # None}

UpdateSessionLastSeen(s, u, sessionID, t) ==
  IF s.sessions[u][sessionID] # None
    THEN [s EXCEPT !.sessions[u][sessionID].LastSeenAt = t]
    ELSE s

(* hashIP that keeps the address as it is. *)
hashIP_Raw(ip, date) == ip

(* SessionManager.hashIP: the first 16 bytes of SHA-256 over the address   *)
(* followed by the date, in hex; the digest is a term over its input.      *)
hashIP(ip, date) == IF ip = "" THEN "" ELSE "sha256(" \o ip \o date \o ")"

(* The date that salts the hash; the clock of the model stays within it.   *)
Today == "2006-01-02"

CacheAddSession(s, u, sessionID, ipHash, t) ==
  [s EXCEPT !.sessions[u][sessionID] =
     [IPHash |-> ipHash, StartedAt |-> t, LastSeenAt |-> t]]

RemoveSession(s, u, sessionID) ==
  [s EXCEPT !.sessions[u][sessionID] = None]

RemoveStaleSessions(sc, t) ==
  [sid \in DOMAIN sc |->
     IF sc[sid] # None /\ t - sc[sid].LastSeenAt > Window THEN None ELSE sc[sid]]

(***************************************************************************)
(* MemoryCache: penalties and the disconnect queue.                        *)
(***************************************************************************)
SetPenalty(s, u, reason, t) ==
  [s EXCEPT !.penalties[u] =
     [Reason |-> reason, AppliedAt |-> t, ExpiresAt |-> t + PenaltyDuration]]

PenaltyExpired(entry, t) == t > entry.ExpiresAt

(* GetPenalty: the entry, or None; an expired entry is deleted by the read. *)
GetPenaltyEntry(s, u, t) ==
  IF s.penalties[u] # None /\ ~PenaltyExpired(s.penalties[u], t)
    THEN s.penalties[u] ELSE None

GetPenaltyState(s, u, t) ==
  IF s.penalties[u] # None /\ PenaltyExpired(s.penalties[u], t)
    THEN [s EXCEPT !.penalties[u] = None] ELSE s

ClearPenalty(s, u) == [s EXCEPT !.penalties[u] = None]

QueueDisconnect(s, u, sessionID, reason, nodeID) ==
  [s EXCEPT !.disconnectQueue =
     Append(@, [UserID |-> u, SessionID |-> sessionID, Reason |-> reason,
                NodeID |-> nodeID])]

(***************************************************************************)
(* SessionManager.CheckSession: a known session is touched and allowed     *)
(* without counting; a new one is allowed while fewer than maxConcurrent   *)
(* sessions were seen within the window.                                   *)
(***************************************************************************)
CheckSessionResult(s, u, sessionID, maxConcurrent, t) ==
  LET sc == s.sessions[u]
      touched == UpdateSessionLastSeen(s, u, sessionID, t)
  IN IF HasSession(sc, sessionID)
       THEN [Allowed |-> TRUE, IsNewSession |-> FALSE, SessionLimitHit |-> FALSE,
             CurrentCount |-> GetActiveSessionCount(touched.sessions[u], t)]
     ELSE IF maxConcurrent > 0 /\ GetActiveSessionCount(sc, t) >= maxConcurrent
       THEN [Allowed |-> FALSE, IsNewSession |-> FALSE, SessionLimitHit |-> TRUE,
             CurrentCount |-> GetActiveSessionCount(sc, t)]
     ELSE [Allowed |-> TRUE, IsNewSession |-> TRUE, SessionLimitHit |-> FALSE,
           CurrentCount |-> GetActiveSessionCount(sc, t)]

CheckSessionState(s, u, sessionID, t) ==
  IF HasSession(s.sessions[u], sessionID)
    THEN UpdateSessionLastSeen(s, u, sessionID, t)
    ELSE s

(***************************************************************************)
(* PenaltyHandler.                                                         *)
(***************************************************************************)
(* CheckPenalty that finds no penalty. *)
CheckPenaltyHas_Never(s, u, t) == FALSE

CheckPenaltyHas(s, u, t) == GetPenaltyEntry(s, u, t) # None

(* ord is the order in which the iteration over the session map yields the *)
(* entries (unspecified in Go): a sequence holding every session id once.  *)
RECURSIVE QueueDisconnectAll(_, _, _, _, _)
QueueDisconnectAll(s, u, sids, ord, reason) ==
  IF ord = << >> THEN s
  ELSE IF Head(ord) \in sids
    THEN QueueDisconnectAll(QueueDisconnect(s, u, Head(ord), reason, ""), u,
                            sids, Tail(ord), reason)
    ELSE QueueDisconnectAll(s, u, sids, Tail(ord), reason)

(* ApplyPenalty without the disconnect commands. *)
ApplyPenalty_PenaltyOnly(s, u, reason, ord, t) == SetPenalty(s, u, reason, t)

ApplyPenalty(s, u, reason, ord, t) ==
  QueueDisconnectAll(SetPenalty(s, u, reason, t), u, GetSessions(s.sessions[u]),
                     ord, reason)

CleanupExpiredPenalties(s, t) ==
  [s EXCEPT !.penalties =
     [u \in DOMAIN s.penalties |->
        IF s.penalties[u] # None /\ PenaltyExpired(s.penalties[u], t)
          THEN None ELSE s.penalties[u]]]

CleanupStaleSessions(s, t) ==
  [s EXCEPT !.sessions =
     [u \in DOMAIN s.sessions |-> RemoveStaleSessions(s.sessions[u], t)]]

(***************************************************************************)
(* QuotaEngine.                                                            *)
(***************************************************************************)
checkTrafficLimits(pkg, upload, download) ==
  /\ ~(pkg.total_traffic > 0 /\ pkg.current_total + upload + download > pkg.total_traffic)
  /\ ~(pkg.upload_limit > 0 /\ pkg.current_upload + upload > pkg.upload_limit)
  /\ ~(pkg.download_limit > 0 /\ pkg.current_download + download > pkg.download_limit)

checkManagerLimitsByUser(s, user, upload, download, sessionDelta, onlineUsersDelta, activeUsersDelta) ==
  IF user = None \/ user.manager_id = Nil \/ user.manager_id = ""
    THEN [Allowed |-> TRUE, ManagerID |-> "", Reason |-> ""]
    ELSE CheckManagerLimits(s, user.manager_id, upload, download, sessionDelta,
                            onlineUsersDelta, activeUsersDelta)

QuotaRes(canUse, reason, exceeded, pkg, cached) ==
  [CanUse |-> canUse, Reason |-> reason, QuotaExceeded |-> exceeded,
   Pkg |-> pkg, Cached |-> cached]

(* What the manager check adds to a result that the package checks passed. *)
WithManagerCheck(mgrRes, mode, pkg, cached) ==
  IF ~mgrRes.Allowed
    THEN QuotaRes(mode = "soft", mgrRes.Reason, TRUE, pkg, cached)
    ELSE QuotaRes(TRUE, "", FALSE, pkg, cached)

(* The cached counters the hit path projects against the package limits.   *)
CachedLimitReason(cachedUser, pkg, upload, download) ==
  IF pkg.total_traffic > 0
     /\ cachedUser.CurrentTotal + upload + download > pkg.total_traffic
    THEN "total traffic quota exceeded"
  ELSE IF pkg.upload_limit > 0 /\ cachedUser.CurrentUpload + upload > pkg.upload_limit
    THEN "upload quota exceeded"
  ELSE IF pkg.download_limit > 0
          /\ cachedUser.CurrentDownload + download > pkg.download_limit
    THEN "download quota exceeded"
  ELSE ""

CheckQuotaHit(s, u, upload, download, mode, t) ==
  LET cachedUser == GetUserCached(s, u)
      pkg == GetPackage(s, cachedUser.ActivePackageID)
  IN IF cachedUser.Status # "active"
       THEN QuotaRes(FALSE, "user status is " \o cachedUser.Status, FALSE, None, TRUE)
     ELSE IF cachedUser.ActivePackageID = Nil
       THEN QuotaRes(FALSE, "no active package", FALSE, None, TRUE)
     ELSE IF pkg = None
       THEN QuotaRes(FALSE, "package not found", FALSE, None, TRUE)
     ELSE IF ~PackageIsActive(pkg)
       THEN QuotaRes(FALSE, "package status is " \o pkg.status, FALSE, pkg, TRUE)
     ELSE IF PackageIsExpired(pkg, t)
       THEN QuotaRes(FALSE, "package expired", FALSE, pkg, TRUE)
     ELSE IF CachedLimitReason(cachedUser, pkg, upload, download) # ""
       THEN QuotaRes(FALSE, CachedLimitReason(cachedUser, pkg, upload, download),
                     TRUE, pkg, TRUE)
     ELSE WithManagerCheck(
            checkManagerLimitsByUser(s, s.users[u], upload, download, 0, 0, 0),
            mode, pkg, TRUE)

CheckQuotaMiss(s, u, upload, download, mode, t) ==
  LET user == s.users[u]
      pkg == GetPackageByUserID(s, u)
  IN IF ~UserCanConnect(user)
       THEN QuotaRes(FALSE, "user cannot connect: status=" \o user.status, FALSE, None, FALSE)
     ELSE IF pkg = None
       THEN QuotaRes(FALSE, "no active package", FALSE, None, FALSE)
     ELSE IF ~PackageCanUse(pkg, t)
       THEN QuotaRes(FALSE, "package cannot be used: status=" \o pkg.status,
                     FALSE, pkg, FALSE)
     ELSE IF ~checkTrafficLimits(pkg, upload, download)
       THEN QuotaRes(FALSE, "traffic quota exceeded", TRUE, pkg, FALSE)
     ELSE WithManagerCheck(
            checkManagerLimitsByUser(s, user, upload, download, 0, 0, 0),
            mode, pkg, FALSE)

CheckQuotaResult(s, u, upload, download, mode, t) ==
  IF GetUserCached(s, u) # None
    THEN CheckQuotaHit(s, u, upload, download, mode, t)
    ELSE CheckQuotaMiss(s, u, upload, download, mode, t)

(* The cache writes of the miss path: the entry is stored from the users   *)
(* row, and stored again with max_concurrent once the package is loaded.   *)
CheckQuotaState(s, u) ==
  IF GetUserCached(s, u) # None THEN s
  ELSE LET user == s.users[u]
           pkg == GetPackageByUserID(s, u)
       IN IF UserCanConnect(user) /\ pkg # None
            THEN SetUser(s, u, user.status, user.active_package_id, pkg.max_concurrent)
            ELSE SetUser(s, u, user.status, user.active_package_id, 0)

RecordUsageOk(s, u) == GetPackageByUserID(s, u) # None

FinishIfExhausted(s, u, pkgID) ==
  LET pkg == GetPackage(s, pkgID)
  IN IF pkg # None /\ ~HasTrafficRemaining(pkg)
       THEN SetUser(UpdateUserStatus(UpdatePackageStatus(s, pkgID, "finish"), u, "finish"),
                    u, "finish", pkgID, pkg.max_concurrent)
       ELSE s

RecordUsage(s, u, upload, download) ==
  LET pkg == GetPackageByUserID(s, u)
      s1 == UpdatePackageUsage(s, pkg.id, upload, download)
      user == s1.users[u]
      s2 == IF user # None /\ user.manager_id # Nil
              THEN ApplyManagerUsageDelta(s1, user.manager_id, upload, download, 0, 0, 0)
              ELSE s1
      s3 == UpdateUserUsage(s2, u, upload, download)
  IN IF pkg = None THEN s ELSE FinishIfExhausted(s3, u, pkg.id)

(***************************************************************************)
(* QuotaEngine.CheckAndEnforceQuota: CheckQuota with zero deltas, then the  *)
(* stored counters of the package against its limits; a result that blocks *)
(* with quotaExceeded suspends the user and queues one disconnect.         *)
(***************************************************************************)
PackageLimitExceeded(pkg) ==
  LET totalExceeded == pkg.total_traffic > 0 /\ pkg.current_total >= pkg.total_traffic
      uploadExceeded == pkg.upload_limit > 0 /\ pkg.current_upload >= pkg.upload_limit
      downloadExceeded == pkg.download_limit > 0 /\ pkg.current_download >= pkg.download_limit
  IN totalExceeded \/ uploadExceeded \/ downloadExceeded

CheckAndEnforceQuotaResult(s, u, mode, t) ==
  LET result == CheckQuotaResult(s, u, 0, 0, mode, t)
      pkg == IF result.Pkg = None THEN GetPackageByUserID(s, u) ELSE result.Pkg
  IN IF pkg # None /\ PackageLimitExceeded(pkg)
       THEN [result EXCEPT !.CanUse = FALSE, !.QuotaExceeded = TRUE,
                           !.Reason = "traffic quota exceeded"]
       ELSE result

CheckAndEnforceQuotaState(s, u, mode, t) ==
  LET result == CheckAndEnforceQuotaResult(s, u, mode, t)
      s1 == CheckQuotaState(s, u)
  IN IF ~result.CanUse /\ result.QuotaExceeded
       THEN QueueDisconnect(UpdateUserStatus(s1, u, "suspended"), u, "", "quota_exceeded", "")
       ELSE s1

(***************************************************************************)
(* Engine.ProcessUsageReport, step by step.  Each step maps the state to   *)
(* the state after it; Emit appends to the event store.                    *)
(***************************************************************************)
Emit(s, type) == [s EXCEPT !.events = Append(@, type)]

Result(accepted, packageID, quotaExceeded, sessionLimitHit, penaltyApplied, shouldDisconnect, reason) ==
  [Accepted |-> accepted, PackageID |-> packageID, QuotaExceeded |-> quotaExceeded,
   SessionLimitHit |-> sessionLimitHit, PenaltyApplied |-> penaltyApplied,
   ShouldDisconnect |-> shouldDisconnect, Reason |-> reason]

(* Steps 5 to 10, for a report that passed the checks. *)
(* AddSessionStep that announces every session, known or new. *)
AddSessionStep_AlwaysConnected(s, report, isNew, t) ==
  Emit(CacheAddSession(s, report.UserID, report.SessionID,
                       hashIP(report.ClientIP, Today), t), "USER_CONNECTED")

AddSessionStep(s, report, isNew, t) ==
  IF isNew
    THEN Emit(CacheAddSession(s, report.UserID, report.SessionID,
                       hashIP(report.ClientIP, Today), t), "USER_CONNECTED")
    ELSE CacheAddSession(s, report.UserID, report.SessionID,
                       hashIP(report.ClientIP, Today), t)

NodeServiceStep(s, report) ==
  Emit(UpdateServiceUsage(
         UpdateNodeUsage(s, report.NodeID, report.Upload, report.Download),
         report.ServiceID, report.Upload, report.Download),
       "USAGE_RECORDED")

PostRecordStep(s, report, pkgID) ==
  LET updatedPkg == GetPackage(s, pkgID)
  IN IF updatedPkg # None /\ ~HasTrafficRemaining(updatedPkg)
       THEN Emit(UpdateUserStatus(UpdatePackageStatus(s, pkgID, "finish"),
                                  report.UserID, "finish"),
                 "PACKAGE_EXPIRED")
       ELSE s

(* SuspendStep without the status write. *)
SuspendStep_EventOnly(s, report, quotaRes) ==
  IF quotaRes.QuotaExceeded THEN Emit(s, "USER_SUSPENDED") ELSE s

SuspendStep(s, report, quotaRes) ==
  IF quotaRes.QuotaExceeded
    THEN Emit(UpdateUserStatus(s, report.UserID, "suspended"), "USER_SUSPENDED")
    ELSE s

(* The whole handler: the state it leaves, its result, and the results of  *)
(* the session and quota checks it made (None when it did not get there).  *)
Outcome(s, res, sess, quota) == [s |-> s, result |-> res, session |-> sess, quota |-> quota]

ProcessUsageReport(s0, report, ord, mode, t) ==
  LET u == report.UserID
      hasPenalty == CheckPenaltyHas(s0, u, t)
      s1 == GetPenaltyState(s0, u, t)
      pkg == GetPackageByUserID(s1, u)
      sess == CheckSessionResult(s1, u, report.SessionID, pkg.max_concurrent, t)
      s2 == CheckSessionState(s1, u, report.SessionID, t)
      quota == CheckQuotaResult(s2, u, report.Upload, report.Download, mode, t)
      s3 == CheckQuotaState(s2, u)
      s4 == AddSessionStep(s3, report, sess.IsNewSession, t)
      s5 == RecordUsage(s4, u, report.Upload, report.Download)
      s6 == PostRecordStep(NodeServiceStep(s5, report), report, pkg.id)
  IN IF hasPenalty
       THEN Outcome(s1, Result(FALSE, "", FALSE, FALSE, FALSE, TRUE,
                               "user has active penalty"), None, None)
     ELSE IF pkg = None
       THEN Outcome(s1, Result(FALSE, "", FALSE, FALSE, FALSE, FALSE,
                               "no active package"), None, None)
     ELSE IF sess.SessionLimitHit
       THEN Outcome(Emit(ApplyPenalty(s2, u, "concurrent_session_limit_exceeded", ord, t),
                         "PENALTY_APPLIED"),
                    Result(FALSE, "", FALSE, FALSE, TRUE, TRUE,
                           "concurrent session limit exceeded, penalty applied"),
                    sess, None)
     ELSE IF ~quota.CanUse
       THEN Outcome(SuspendStep(s3, report, quota),
                    Result(FALSE, "", quota.QuotaExceeded, FALSE, FALSE, TRUE,
                           quota.Reason),
                    sess, quota)
     ELSE IF ~RecordUsageOk(s4, u)
       THEN Outcome(s4, Result(FALSE, "", FALSE, FALSE, FALSE, FALSE,
                               "failed to record usage"), sess, quota)
     ELSE Outcome(s6, Result(TRUE, pkg.id, FALSE, FALSE, FALSE, FALSE, ""),
                  sess, quota)

(***************************************************************************)
(* The gRPC Server.ReportUsage: the quota check comes first, then the      *)
(* penalty check, the session check when the quota result carries a        *)
(* package, the rejection of a blocked result, and the session add with    *)
(* the usage record.  It emits no event and suspends nobody.  storeFails   *)
(* says that the store answers the quota check with an error.              *)
(***************************************************************************)
GrpcOutcome(s, err, res) == [s |-> s, err |-> err, result |-> res]

GrpcReportUsage(s0, report, storeFails, ord, mode, t) ==
  LET u == report.UserID
      quota == CheckQuotaResult(s0, u, report.Upload, report.Download, mode, t)
      s1 == CheckQuotaState(s0, u)
      hasPenalty == CheckPenaltyHas(s1, u, t)
      s2 == GetPenaltyState(s1, u, t)
      sess == IF quota.Pkg = None THEN None
              ELSE CheckSessionResult(s2, u, report.SessionID, quota.Pkg.max_concurrent, t)
      s3 == IF quota.Pkg = None THEN s2 ELSE CheckSessionState(s2, u, report.SessionID, t)
      s4 == RecordUsage(CacheAddSession(s3, u, report.SessionID, hashIP(report.ClientIP, Today), t), u,
                        report.Upload, report.Download)
      s5 == UpdateServiceUsage(
              UpdateNodeUsage(s4, report.NodeID, report.Upload, report.Download),
              report.ServiceID, report.Upload, report.Download)
  IN IF storeFails
       THEN GrpcOutcome(s0, TRUE, None)
     ELSE IF hasPenalty
       THEN GrpcOutcome(s2, FALSE, Result(FALSE, "", FALSE, FALSE, FALSE, TRUE,
                                          "user has active penalty"))
     ELSE IF quota.Pkg # None /\ sess.SessionLimitHit
       THEN GrpcOutcome(ApplyPenalty(s3, u, "concurrent_session_limit_exceeded", ord, t),
                        FALSE, Result(FALSE, "", FALSE, FALSE, TRUE, TRUE,
                                      "concurrent session limit exceeded"))
     ELSE IF ~quota.CanUse
       THEN GrpcOutcome(s3, FALSE, Result(FALSE, "", quota.QuotaExceeded, FALSE, FALSE,
                                          TRUE, quota.Reason))
     ELSE IF ~RecordUsageOk(s3, u)
       THEN GrpcOutcome(CacheAddSession(s3, u, report.SessionID, hashIP(report.ClientIP, Today), t), TRUE, None)
     ELSE GrpcOutcome(s5, FALSE, Result(TRUE, quota.Pkg.id, FALSE, FALSE, FALSE, FALSE, ""))

(* The entry of the batch response for one report: the result of the       *)
(* single-report path, or a rejection carrying the error.                  *)
BatchEntry(report, out) ==
  IF out.err
    THEN [UserID |-> report.UserID, Accepted |-> FALSE, Reason |-> "error"]
    ELSE [UserID |-> report.UserID, Accepted |-> out.result.Accepted,
          Reason |-> out.result.Reason]

(* BatchReportUsage that returns at the first error. *)
RECURSIVE BatchReportUsage_AbortOnError(_, _, _, _, _)
BatchReportUsage_AbortOnError(s, reqs, ord, mode, t) ==
  IF reqs = << >> THEN [s |-> s, results |-> << >>]
  ELSE LET out == GrpcReportUsage(s, Head(reqs).report, Head(reqs).storeFails, ord, mode, t)
           rest == BatchReportUsage_AbortOnError(out.s, Tail(reqs), ord, mode, t)
       IN IF out.err THEN [s |-> out.s, results |-> <<BatchEntry(Head(reqs).report, out)>>]
          ELSE [s |-> rest.s,
                results |-> <<BatchEntry(Head(reqs).report, out)>> \o rest.results]

RECURSIVE BatchReportUsage(_, _, _, _, _)
BatchReportUsage(s, reqs, ord, mode, t) ==
  IF reqs = << >> THEN [s |-> s, results |-> << >>]
  ELSE LET out == GrpcReportUsage(s, Head(reqs).report, Head(reqs).storeFails, ord, mode, t)
           rest == BatchReportUsage(out.s, Tail(reqs), ord, mode, t)
       IN [s |-> rest.s,
           results |-> <<BatchEntry(Head(reqs).report, out)>> \o rest.results]

(***************************************************************************)
(* Initial states.  The store holds two users, each with its package, a    *)
(* node, a service and the two managers; the in-memory state is empty.     *)
(***************************************************************************)
PackageRow(u, total, upload, download, maxConcurrent) ==
  [id |-> PkgOf(u), user_id |-> u, total_traffic |-> total, upload_limit |-> upload,
   download_limit |-> download, max_concurrent |-> maxConcurrent,
   status |-> "active", current_upload |-> 0, current_download |-> 0,
   current_total |-> 0, expires_at |-> NoTime]

ManagerPackageRow(total, upload, download) ==
  [total_limit |-> total, upload_limit |-> upload, download_limit |-> download,
   max_sessions |-> 0, max_online_users |-> 0, max_active_users |-> 0,
   status |-> "active", current_upload |-> 0, current_download |-> 0,
   current_total |-> 0, current_sessions |-> 0, current_online_users |-> 0,
   current_active_users |-> 0]

NoCall == [op |-> "none", report |-> None, result |-> None, session |-> None,
           quota |-> None, events |-> << >>, batch |-> << >>]

LockKinds == {"userLocks", "nodeLocks", "serviceLocks"}

LockIds == {"id1"}

NewLockManager == [kind \in LockKinds |-> [id \in LockIds |-> Nil]]

InitCache ==
  /\ cacheUsers = [u \in Users |-> None]
  /\ sessions = [u \in Users |-> [sid \in SessionIds |-> None]]
  /\ penalties = [u \in Users |-> None]
  /\ disconnectQueue = << >>
  /\ managerEnforcementMode = "default"
  /\ now = 0
  /\ last = NoCall
  /\ receivers = << >>
  /\ activeDB = [buffer |-> << >>, rows |-> << >>]
  /\ ownerAuthKey = None
  /\ lockManager = NewLockManager

InitMemory == InitCache /\ procs = << >>

InitStore(pkgRows, mgrRows) ==
  /\ users = [u \in Users |->
                [status |-> "active", active_package_id |-> PkgOf(u),
                 manager_id |-> ManagerOfUser(u)]]
  /\ packages \in pkgRows
  /\ managers = [m \in MgrIds |-> [parent_id |-> IF m = "child" THEN "root" ELSE Nil]]
  /\ managerPackages \in mgrRows
  /\ nodeUsage = [n \in {NodeId} |-> [current_upload |-> 0, current_download |-> 0]]
  /\ serviceUsage = [n \in {ServiceId} |-> [current_upload |-> 0, current_download |-> 0]]

(***************************************************************************)
(* Operations.  A report is taken while the counters are below the bound   *)
(* MaxTotal and the disconnect queue holds at most MaxQueue commands.      *)
(***************************************************************************)
(* The address a session reports from: each session id has its own, and   *)
(* the reports of s3 carry none.                                           *)
ClientIPOf(sid) ==
  IF sid = "s1" THEN "10.0.0.1" ELSE IF sid = "s2" THEN "10.0.0.2" ELSE ""

Report(u, sid, upload, download) ==
  [UserID |-> u, NodeID |-> NodeId, ServiceID |-> ServiceId, SessionID |-> sid,
   ClientIP |-> ClientIPOf(sid), Upload |-> upload, Download |-> download]

Orders == {ord \in [1..Cardinality(SessionIds) -> SessionIds] :
             \A sid \in SessionIds : \E i \in DOMAIN ord : ord[i] = sid}

(* With at most one session in the table every order yields the same queue. *)
OneOrder == CHOOSE ord \in Orders : TRUE

ReportUsage(u, sid, upload, download, ord) ==
  /\ packages[PkgOf(u)].current_total + upload + download <= MaxTotal
  /\ Len(disconnectQueue) <= MaxQueue
  /\ LET out == ProcessUsageReport(CurState, Report(u, sid, upload, download), ord,
                                   managerEnforcementMode, now)
     IN /\ SetState(out.s)
        /\ last' = [op |-> "report", report |-> Report(u, sid, upload, download),
                    result |-> out.result, session |-> out.session,
                    quota |-> out.quota, events |-> out.s.events, batch |-> << >>]
  /\ UNCHANGED <<managerEnforcementMode, now, procs, receivers, activeDB, ownerAuthKey, lockManager>>

Tick ==
  /\ now < MaxTime
  /\ now' = now + 1
  /\ last' = [NoCall EXCEPT !.op = "tick"]
  /\ UNCHANGED <<users, packages, managers, managerPackages, nodeUsage, serviceUsage,
                 cacheUsers, sessions, penalties, disconnectQueue,
                 managerEnforcementMode, procs, receivers, activeDB, ownerAuthKey, lockManager>>

Cleanup ==
  /\ SetState(CleanupExpiredPenalties(CleanupStaleSessions(CurState, now), now))
  /\ last' = [NoCall EXCEPT !.op = "cleanup"]
  /\ UNCHANGED <<managerEnforcementMode, now, procs, receivers, activeDB, ownerAuthKey, lockManager>>

HandleUserDisconnect(u, sid) ==
  /\ SetState(RemoveSession(CurState, u, sid))
  /\ last' = [NoCall EXCEPT !.op = "disconnect", !.events = <<"USER_DISCONNECTED">>]
  /\ UNCHANGED <<managerEnforcementMode, now, procs, receivers, activeDB, ownerAuthKey, lockManager>>

(* A drain that loses the oldest command of the batch it returns. *)
GetDisconnectBatchResult_DropFirst(s) ==
  IF s.disconnectQueue = << >> THEN << >> ELSE Tail(s.disconnectQueue)

(* The slice MemoryCache.GetDisconnectBatch returns. *)
GetDisconnectBatchResult(s) == s.disconnectQueue

GetDisconnectBatch ==
  /\ disconnectQueue' = << >>
  /\ last' = [NoCall EXCEPT !.op = "drain", !.batch = GetDisconnectBatchResult(CurState)]
  /\ UNCHANGED <<users, packages, managers, managerPackages, nodeUsage, serviceUsage,
                 cacheUsers, sessions, penalties, managerEnforcementMode, now, procs, receivers, activeDB, ownerAuthKey, lockManager>>

SetManagerEnforcementMode(mode) ==
  /\ managerEnforcementMode' = IF mode \in EnforcementModes THEN mode ELSE "default"
  /\ last' = [NoCall EXCEPT !.op = "mode"]
  /\ UNCHANGED <<users, packages, managers, managerPackages, nodeUsage, serviceUsage,
                 cacheUsers, sessions, penalties, disconnectQueue, now, procs, receivers, activeDB, ownerAuthKey, lockManager>>

(* The admin API's user update, which writes the status to the users row.  *)
UpdateUser(u, status) ==
  /\ SetState(UpdateUserStatus(CurState, u, status))
  /\ last' = [NoCall EXCEPT !.op = "admin"]
  /\ UNCHANGED <<managerEnforcementMode, now, procs, receivers, activeDB, ownerAuthKey, lockManager>>

(* The handlers of the concurrent specification, and a handler at rest. *)
Procs == {"h1", "h2", "h3"}

Idle == [pc |-> "idle", report |-> None, pkgID |-> Nil, maxConcurrent |-> 0, isNew |-> FALSE]

(* A restart of the process: the store is kept, the in-memory state is new *)
(* and the handlers in flight are gone.                                    *)
Restart ==
  /\ cacheUsers' = [u \in Users |-> None]
  /\ sessions' = [u \in Users |-> [sid \in SessionIds |-> None]]
  /\ penalties' = [u \in Users |-> None]
  /\ disconnectQueue' = << >>
  /\ managerEnforcementMode' = "default"
  /\ last' = [NoCall EXCEPT !.op = "restart"]
  /\ procs' = IF DOMAIN procs = {} THEN procs ELSE [h \in Procs |-> Idle]
  /\ receivers' = << >>
  /\ activeDB' = [activeDB EXCEPT !.buffer = << >>]
  /\ UNCHANGED <<users, packages, managers, managerPackages, nodeUsage, serviceUsage,
                 now, ownerAuthKey, lockManager>>

(***************************************************************************)
(* Spec: quota and status.  One user reports on one session; the package   *)
(* carries a total, an upload or a download limit; the admin changes the   *)
(* user's status and the process restarts.                                 *)
(***************************************************************************)
Deltas == 0..MaxDelta

UnlimitedPackage(u) == PackageRow(u, 0, 0, 0, 1)

LimitedPackages(u) ==
  {PackageRow(u, TotalLimit, 0, 0, 1), PackageRow(u, 0, PartLimit, 0, 1),
   PackageRow(u, 0, 0, PartLimit, 1), PackageRow(u, TotalLimit, PartLimit, PartLimit, 1)}

UnlimitedManagers == {[m \in MgrIds |-> ManagerPackageRow(0, 0, 0)]}

Init ==
  /\ InitMemory
  /\ InitStore({[id \in PkgIds |-> IF id = PkgOf("u1") THEN row ELSE UnlimitedPackage("u2")]
                  : row \in LimitedPackages("u1")},
               UnlimitedManagers)

Next ==
  \/ \E up \in Deltas, down \in Deltas :
       ReportUsage("u1", "s1", up, down, OneOrder)
  \/ \E status \in UserStatuses : UpdateUser("u1", status)
  \/ Restart

Spec == Init /\ [][Next]_vars

(***************************************************************************)
(* SpecSession: sessions and penalties.  One user with an unlimited        *)
(* package of max_concurrent 1 or 2 reports on three session ids while the *)
(* clock ticks, the periodic cleanup runs, sessions disconnect and the     *)
(* disconnect queue is drained.                                            *)
(***************************************************************************)
SessionPackages(u) == {PackageRow(u, 0, 0, 0, mc) : mc \in 1..2}

InitSession ==
  /\ InitMemory
  /\ InitStore({[id \in PkgIds |-> IF id = PkgOf("u1") THEN row ELSE UnlimitedPackage("u2")]
                  : row \in SessionPackages("u1")},
               UnlimitedManagers)

NextSession ==
  \/ \E sid \in SessionIds, d \in 0..1, ord \in Orders :
       ReportUsage("u1", sid, d, d, ord)
  \/ Tick
  \/ Cleanup
  \/ \E sid \in SessionIds : HandleUserDisconnect("u1", sid)
  \/ GetDisconnectBatch

SpecSession == InitSession /\ [][NextSession]_vars

(***************************************************************************)
(* SpecMgr: manager limits.  u1 (manager "child", package total limit      *)
(* TotalLimit) and u2 (manager "root", unlimited package) report while the *)
(* enforcement mode is set and the process restarts; "child" has no limit  *)
(* or the total limit PartLimit, "root" no limit or MgrLimit.              *)
(***************************************************************************)
ManagerRows ==
  {[m \in MgrIds |-> IF m = "child" THEN c ELSE r] :
     c \in {ManagerPackageRow(0, 0, 0), ManagerPackageRow(PartLimit, 0, 0)},
     r \in {ManagerPackageRow(0, 0, 0), ManagerPackageRow(MgrLimit, 0, 0)}}

InitMgr ==
  /\ InitMemory
  /\ InitStore({[id \in PkgIds |-> IF id = PkgOf("u1")
                                     THEN PackageRow("u1", TotalLimit, 0, 0, 1)
                                     ELSE UnlimitedPackage("u2")]},
               ManagerRows)

NextMgr ==
  \/ \E d \in {<<1, 0>>, <<0, 1>>, <<MaxDelta, 0>>} :
       ReportUsage("u1", "s1", d[1], d[2], OneOrder)
  \/ ReportUsage("u2", "s1", 1, 1, OneOrder)
  \/ \E mode \in EnforcementModes \cup {"strict"} : SetManagerEnforcementMode(mode)
  \/ Restart

SpecMgr == InitMgr /\ [][NextMgr]_vars

(***************************************************************************)
(* SpecConc: concurrent reports of one user.  Each handler in Procs runs   *)
(* Engine.ProcessUsageReport for u1 on session s1, one component call at a *)
(* time: the penalty check and the package read, the session check, the    *)
(* quota check (under the user's read lock, with the suspension that       *)
(* follows a rejection), the session add, RecordUsage (under the user's    *)
(* write lock), and the node and service counters with the post-record     *)
(* check.  The steps of different handlers interleave freely.  The package *)
(* has the total limit TotalLimit; the process may restart, which ends the *)
(* handlers in flight.                                                     *)
(***************************************************************************)
(* A report of total delta d: one unit of upload, the rest download. *)
ConcReport(d) == Report("u1", "s1", 1, d - 1)

InitConc ==
  /\ InitCache
  /\ procs = [h \in Procs |-> Idle]
  /\ InitStore({[id \in PkgIds |-> IF id = PkgOf("u1")
                                     THEN PackageRow("u1", TotalLimit, 0, 0, 1)
                                     ELSE UnlimitedPackage("u2")]},
               UnlimitedManagers)

UnchangedByHandler == UNCHANGED <<managerEnforcementMode, now, last, receivers, activeDB, ownerAuthKey, lockManager>>

(* Lines 56 to 74: the penalty check and the package read. *)
BeginReport(h, d) ==
  /\ procs[h].pc = "idle"
  /\ packages[PkgOf("u1")].current_total <= MaxTotal
  /\ LET u == "u1"
         hasPenalty == CheckPenaltyHas(CurState, u, now)
         pkg == GetPackageByUserID(CurState, u)
     IN /\ SetState(GetPenaltyState(CurState, u, now))
        /\ procs' = [procs EXCEPT ![h] =
                       IF hasPenalty \/ pkg = None THEN Idle
                       ELSE [Idle EXCEPT !.pc = "session", !.report = ConcReport(d),
                                         !.pkgID = pkg.id,
                                         !.maxConcurrent = pkg.max_concurrent]]
  /\ UnchangedByHandler

(* Lines 76 to 89: the session check, and the penalty when the limit is hit. *)
SessionCheck(h, ord) ==
  /\ procs[h].pc = "session"
  /\ Len(disconnectQueue) <= MaxQueue
  /\ LET r == procs[h].report
         sess == CheckSessionResult(CurState, r.UserID, r.SessionID,
                                    procs[h].maxConcurrent, now)
         s2 == CheckSessionState(CurState, r.UserID, r.SessionID, now)
     IN IF sess.SessionLimitHit
          THEN /\ SetState(ApplyPenalty(s2, r.UserID, "concurrent_session_limit_exceeded",
                                        ord, now))
               /\ procs' = [procs EXCEPT ![h] = Idle]
          ELSE /\ SetState(s2)
               /\ procs' = [procs EXCEPT ![h].pc = "quota", ![h].isNew = sess.IsNewSession]
  /\ UnchangedByHandler

(* Lines 91 to 110: the quota check, and the suspension when it rejects. *)
QuotaCheck(h) ==
  /\ procs[h].pc = "quota"
  /\ LET r == procs[h].report
         quota == CheckQuotaResult(CurState, r.UserID, r.Upload, r.Download,
                                   managerEnforcementMode, now)
         s3 == CheckQuotaState(CurState, r.UserID)
     IN IF quota.CanUse
          THEN /\ SetState(s3)
               /\ procs' = [procs EXCEPT ![h].pc = "add"]
          ELSE /\ SetState(SuspendStep(s3, r, quota))
               /\ procs' = [procs EXCEPT ![h] = Idle]
  /\ UnchangedByHandler

(* Lines 118 to 124: the session add. *)
SessionAdd(h) ==
  /\ procs[h].pc = "add"
  /\ SetState(AddSessionStep(CurState, procs[h].report, procs[h].isNew, now))
  /\ procs' = [procs EXCEPT ![h].pc = "record"]
  /\ UnchangedByHandler

(* Lines 126 to 131: RecordUsage. *)
UsageRecord(h) ==
  /\ procs[h].pc = "record"
  /\ LET r == procs[h].report
     IN IF RecordUsageOk(CurState, r.UserID)
          THEN /\ SetState(RecordUsage(CurState, r.UserID, r.Upload, r.Download))
               /\ procs' = [procs EXCEPT ![h].pc = "post"]
          ELSE /\ SetState(CurState)
               /\ procs' = [procs EXCEPT ![h] = Idle]
  /\ UnchangedByHandler

(* Lines 133 to 154: node and service counters, the post-record check. *)
PostRecord(h) ==
  /\ procs[h].pc = "post"
  /\ SetState(PostRecordStep(NodeServiceStep(CurState, procs[h].report),
                             procs[h].report, procs[h].pkgID))
  /\ procs' = [procs EXCEPT ![h] = Idle]
  /\ UnchangedByHandler

NextConc ==
  \/ \E h \in Procs, d \in 1..MaxDelta : BeginReport(h, d)
  \/ \E h \in Procs, ord \in Orders : SessionCheck(h, ord)
  \/ \E h \in Procs : QuotaCheck(h)
  \/ \E h \in Procs : SessionAdd(h)
  \/ \E h \in Procs : UsageRecord(h)
  \/ \E h \in Procs : PostRecord(h)
  \/ Restart

SpecConc == InitConc /\ [][NextConc]_vars

(***************************************************************************)
(* SpecCreate: manager creation.  The managers table starts empty;         *)
(* managers are created with any parent id and with total_limit and        *)
(* max_sessions from 0 (no limit) to MaxLimit.                             *)
(***************************************************************************)
NewMgrIds == {"m1", "m2", "m3"}

NewManagerPackages ==
  {[ManagerPackageRow(total, 0, 0) EXCEPT !.max_sessions = ms] :
     total \in 0..MaxLimit, ms \in 0..MaxLimit}

InitCreate ==
  /\ InitMemory
  /\ users = [u \in Users |->
                [status |-> "active", active_package_id |-> PkgOf(u), manager_id |-> Nil]]
  /\ packages = [id \in PkgIds |-> UnlimitedPackage(IF id = PkgOf("u1") THEN "u1" ELSE "u2")]
  /\ managers = << >>
  /\ managerPackages = << >>
  /\ nodeUsage = [n \in {NodeId} |-> [current_upload |-> 0, current_download |-> 0]]
  /\ serviceUsage = [n \in {ServiceId} |-> [current_upload |-> 0, current_download |-> 0]]

CreateManagerCall(id, parentID, pkg) ==
  /\ SetState(CreateManager(CurState, id, parentID, pkg))
  /\ last' = [NoCall EXCEPT !.op = "create",
                            !.result = [Ok |-> CreateManagerOk(CurState, id, parentID, pkg)]]
  /\ UNCHANGED <<managerEnforcementMode, now, procs, receivers, activeDB, ownerAuthKey, lockManager>>

NextCreate ==
  \E id \in NewMgrIds, parentID \in NewMgrIds \cup {Nil}, pkg \in NewManagerPackages :
    CreateManagerCall(id, parentID, pkg)

SpecCreate == InitCreate /\ [][NextCreate]_vars

(***************************************************************************)
(* SpecQueue: the disconnect queue alone.  Producers append one command    *)
(* per QueueDisconnect call and pollers drain; every call holds            *)
(* disconnectMu for its whole body, so the calls of concurrent goroutines  *)
(* interleave as atomic steps.                                             *)
(***************************************************************************)
DisconnectReasons == {"quota_exceeded", "concurrent_session_limit_exceeded"}

InitQueue == InitSession

QueueDisconnectCall(u, sessionID, reason) ==
  /\ Len(disconnectQueue) <= MaxQueue
  /\ SetState(QueueDisconnect(CurState, u, sessionID, reason, ""))
  /\ last' = [NoCall EXCEPT !.op = "queue"]
  /\ UNCHANGED <<managerEnforcementMode, now, procs, receivers, activeDB, ownerAuthKey, lockManager>>

NextQueue ==
  \/ \E sid \in SessionIds, reason \in DisconnectReasons :
       QueueDisconnectCall("u1", sid, reason)
  \/ GetDisconnectBatch

SpecQueue == InitQueue /\ [][NextQueue]_vars

(***************************************************************************)
(* SpecPoll: enforcement and the data-plane poller.  One user reports on   *)
(* three session ids, which applies penalties and queues disconnects; the  *)
(* poller calls the gRPC GetDisconnectCommands, the only disconnect        *)
(* endpoint a data plane can reach (Engine.GetDisconnectBatch has no       *)
(* caller in the servers).  The poller polls again and again, hence the    *)
(* weak fairness on its call.                                              *)
(***************************************************************************)
(* The commands the gRPC handler answers with: always the empty list. *)
GetDisconnectCommandsResult(s) == << >>

GetDisconnectCommands ==
  /\ last' = [NoCall EXCEPT !.op = "poll", !.batch = GetDisconnectCommandsResult(CurState)]
  /\ UNCHANGED <<users, packages, managers, managerPackages, nodeUsage, serviceUsage,
                 cacheUsers, sessions, penalties, disconnectQueue,
                 managerEnforcementMode, now, procs, receivers, activeDB, ownerAuthKey, lockManager>>

NextPoll ==
  \/ \E sid \in SessionIds, d \in 0..1 : ReportUsage("u1", sid, d, d, OneOrder)
  \/ Tick
  \/ GetDisconnectCommands

SpecPoll == InitSession /\ [][NextPoll]_vars /\ WF_vars(GetDisconnectCommands)

(***************************************************************************)
(* SpecEnforce: CheckAndEnforceQuota.  u1 reports under a package with a   *)
(* total or an upload limit and under the manager "child" (without a limit *)
(* or with the total limit PartLimit); the admin changes the user's status *)
(* and the enforcement mode, the process restarts, and CheckAndEnforceQuota *)
(* is called for u1 at any moment.                                         *)
(***************************************************************************)
CheckAndEnforceQuota(u) ==
  /\ Len(disconnectQueue) <= MaxQueue
  /\ SetState(CheckAndEnforceQuotaState(CurState, u, managerEnforcementMode, now))
  /\ last' = [NoCall EXCEPT !.op = "enforce", !.report = Report(u, "", 0, 0),
                            !.quota = CheckAndEnforceQuotaResult(CurState, u, managerEnforcementMode, now)]
  /\ UNCHANGED <<managerEnforcementMode, now, procs, receivers, activeDB, ownerAuthKey, lockManager>>

InitEnforce ==
  /\ InitMemory
  /\ InitStore({[id \in PkgIds |-> IF id = PkgOf("u1") THEN row ELSE UnlimitedPackage("u2")]
                  : row \in {PackageRow("u1", TotalLimit, 0, 0, 1),
                             PackageRow("u1", 0, PartLimit, 0, 1)}},
               {[m \in MgrIds |-> IF m = "child" THEN c ELSE ManagerPackageRow(0, 0, 0)]
                  : c \in {ManagerPackageRow(0, 0, 0), ManagerPackageRow(PartLimit, 0, 0)}})

NextEnforce ==
  \/ \E d \in {<<1, 0>>, <<0, 1>>} : ReportUsage("u1", "s1", d[1], d[2], OneOrder)
  \/ \E mode \in {"soft", "hard"} : SetManagerEnforcementMode(mode)
  \/ \E status \in UserStatuses : UpdateUser("u1", status)
  \/ CheckAndEnforceQuota("u1")
  \/ Restart

SpecEnforce == InitEnforce /\ [][NextEnforce]_vars

(***************************************************************************)
(* SpecBatch: the gRPC batch endpoint.  A batch holds up to MaxBatch       *)
(* reports of one unit of upload, of u1 (package total TotalLimit,         *)
(* max_concurrent 1) on two session ids, and reports of u1 and u2 on which *)
(* the store fails.  The process restarts.                                 *)
(***************************************************************************)
BatchRequests ==
  {[report |-> Report("u1", sid, 1, 0), storeFails |-> FALSE] : sid \in {"s1", "s2"}}
  \cup {[report |-> Report(u, "s1", 1, 0), storeFails |-> TRUE] : u \in Users}

Batches == UNION {[1..n -> BatchRequests] : n \in 1..MaxBatch}

BatchReportUsageCall(reqs) ==
  /\ \A u \in Users : packages[PkgOf(u)].current_total + Len(reqs) <= MaxTotal
  /\ Len(disconnectQueue) <= MaxQueue
  /\ LET out == BatchReportUsage(CurState, reqs, OneOrder, managerEnforcementMode, now)
     IN /\ SetState(out.s)
        /\ last' = [NoCall EXCEPT !.op = "batch", !.report = [reqs |-> reqs],
                            !.result = [results |-> out.results]]
  /\ UNCHANGED <<managerEnforcementMode, now, procs, receivers, activeDB, ownerAuthKey, lockManager>>

InitBatch ==
  /\ InitMemory
  /\ InitStore({[id \in PkgIds |-> IF id = PkgOf("u1")
                                     THEN PackageRow("u1", TotalLimit, 0, 0, 1)
                                     ELSE UnlimitedPackage("u2")]},
               UnlimitedManagers)

NextBatch ==
  \/ \E reqs \in Batches : BatchReportUsageCall(reqs)
  \/ Restart

SpecBatch == InitBatch /\ [][NextBatch]_vars

(***************************************************************************)
(* ReceiverHub.  A receiver is its type filter, the capacity of its        *)
(* channel and the events buffered in the channel.  Publish holds the read *)
(* lock while it goes over the receivers in the map's iteration order, one *)
(* non-blocking send per receiver; Subscribe and Unsubscribe need the      *)
(* write lock.  Publishers run concurrently with each other and with the   *)
(* consumers that read the channels.                                       *)
(***************************************************************************)
ReceiverIds == {"usage", "all"}

EventTypes == {"USAGE_RECORDED", "USER_CONNECTED"}

Publishers == {"p1", "p2"}

NotPublishing == [pc |-> "idle", event |-> Nil, todo |-> {}]

(* accepts that lets every type through. *)
accepts_Always(r, type) == TRUE

accepts(r, type) == IF Cardinality(r.Types) = 0 THEN TRUE ELSE type \in r.Types

(* The channel after select { case r.Channel <- event: default: }. *)
TrySend(r, event) ==
  IF Len(r.Channel) < r.Cap THEN Append(r.Channel, event) ELSE r.Channel

ReadLockHeld == \E p \in Publishers : procs[p].pc = "send"

UnchangedByHub ==
  UNCHANGED <<users, packages, managers, managerPackages, nodeUsage, serviceUsage,
              cacheUsers, sessions, penalties, disconnectQueue, managerEnforcementMode, now,
              activeDB, ownerAuthKey, lockManager>>

Subscribe(id, bufferSize, eventTypes) ==
  /\ ~ReadLockHeld
  /\ receivers' = (id :> [Types |-> eventTypes,
                          Cap |-> IF bufferSize <= 0 THEN 1 ELSE bufferSize,
                          Channel |-> << >>]) @@ receivers
  /\ last' = [NoCall EXCEPT !.op = "subscribe"]
  /\ UNCHANGED procs
  /\ UnchangedByHub

Unsubscribe(id) ==
  /\ ~ReadLockHeld
  /\ receivers' = [r \in DOMAIN receivers \ {id} |-> receivers[r]]
  /\ last' = [NoCall EXCEPT !.op = "unsubscribe"]
  /\ UNCHANGED procs
  /\ UnchangedByHub

(* Publish takes the read lock and starts the iteration. *)
Publish(p, type) ==
  /\ procs[p].pc = "idle"
  /\ DOMAIN receivers # {}
  /\ procs' = [procs EXCEPT ![p] = [pc |-> "send", event |-> type, todo |-> DOMAIN receivers]]
  /\ last' = [NoCall EXCEPT !.op = "publish"]
  /\ UNCHANGED receivers
  /\ UnchangedByHub

(* One iteration of the loop: the filter, then the non-blocking send; the  *)
(* read lock is released after the last receiver.                          *)
PublishSend(p, id) ==
  /\ procs[p].pc = "send"
  /\ id \in procs[p].todo
  /\ receivers' = [receivers EXCEPT ![id].Channel =
                     IF accepts(receivers[id], procs[p].event)
                       THEN TrySend(receivers[id], procs[p].event) ELSE @]
  /\ procs' = [procs EXCEPT ![p] = IF procs[p].todo = {id} THEN NotPublishing
                                   ELSE [@ EXCEPT !.todo = @ \ {id}]]
  /\ last' = [NoCall EXCEPT !.op = "send"]
  /\ UnchangedByHub

(* A consumer takes the oldest event from its channel. *)
Receive(id) ==
  /\ id \in DOMAIN receivers
  /\ receivers[id].Channel # << >>
  /\ receivers' = [receivers EXCEPT ![id].Channel = Tail(@)]
  /\ last' = [NoCall EXCEPT !.op = "receive"]
  /\ UNCHANGED procs
  /\ UnchangedByHub

InitHub ==
  /\ InitCache
  /\ InitStore({[id \in PkgIds |-> UnlimitedPackage(IF id = PkgOf("u1") THEN "u1" ELSE "u2")]},
               UnlimitedManagers)
  /\ procs = [p \in Publishers |-> NotPublishing]

NextHub ==
  \/ \E id \in ReceiverIds, bufferSize \in 0..MaxBuffer,
        eventTypes \in {{}, {"USAGE_RECORDED"}} : Subscribe(id, bufferSize, eventTypes)
  \/ \E id \in ReceiverIds : Unsubscribe(id)
  \/ \E p \in Publishers, type \in EventTypes : Publish(p, type)
  \/ \E p \in Publishers, id \in ReceiverIds : PublishSend(p, id)
  \/ \E id \in ReceiverIds : Receive(id)

SpecHub == InitHub /\ [][NextHub]_vars

(***************************************************************************)
(* ActiveDB: usage reports are appended to an in-memory buffer and written *)
(* to the usage_reports table, whose primary key is the report id, in one  *)
(* transaction.  The buffer is flushed by Flush and by BufferUsage once it *)
(* holds FlushSize reports; every call holds bufferMu for its whole body.  *)
(***************************************************************************)
(* flushBuffer that writes the oldest buffered report only. *)
flushBuffer_HeadOnly(a) ==
  IF a.buffer = << >> THEN a
  ELSE [buffer |-> Tail(a.buffer),
        rows |-> (Head(a.buffer).ID :> Head(a.buffer)) @@ a.rows]

(* An insert that violates the primary key fails the transaction, which is *)
(* rolled back; the buffer is cleared after the commit only.               *)
flushBuffer(a) ==
  LET ids == {a.buffer[i].ID : i \in DOMAIN a.buffer}
      inserted == [id \in ids |-> a.buffer[CHOOSE i \in DOMAIN a.buffer : a.buffer[i].ID = id]]
  IN IF a.buffer = << >> THEN a
     ELSE IF Cardinality(ids) < Len(a.buffer) \/ ids \cap DOMAIN a.rows # {} THEN a
     ELSE [buffer |-> << >>, rows |-> inserted @@ a.rows]

BufferUsage(report) ==
  /\ Len(activeDB.buffer) <= FlushSize
  /\ activeDB' = IF Len(activeDB.buffer) + 1 >= FlushSize
                   THEN flushBuffer([activeDB EXCEPT !.buffer = Append(@, report)])
                   ELSE [activeDB EXCEPT !.buffer = Append(@, report)]
  /\ last' = [NoCall EXCEPT !.op = "buffer"]
  /\ UNCHANGED <<users, packages, managers, managerPackages, nodeUsage, serviceUsage,
                 cacheUsers, sessions, penalties, disconnectQueue,
                 managerEnforcementMode, now, procs, receivers, ownerAuthKey, lockManager>>

(* last.result says whether the flush failed and whether the call before   *)
(* it was a flush too.                                                     *)
Flush ==
  /\ activeDB' = flushBuffer(activeDB)
  /\ last' = [NoCall EXCEPT !.op = "flush",
                            !.result = [Err |-> activeDB.buffer # << >>
                                                  /\ flushBuffer(activeDB) = activeDB,
                                        Again |-> last.op = "flush"]]
  /\ UNCHANGED <<users, packages, managers, managerPackages, nodeUsage, serviceUsage,
                 cacheUsers, sessions, penalties, disconnectQueue,
                 managerEnforcementMode, now, procs, receivers, ownerAuthKey, lockManager>>

NextActive ==
  \/ \E id \in {"r1", "r2", "r3"} :
       BufferUsage([ID |-> id, UserID |-> "u1", Upload |-> 1])
  \/ Flush

SpecActive == InitBatch /\ [][NextActive]_vars

(***************************************************************************)
(* REST authentication: the owner key of the user database and the auth    *)
(* middleware of the HTTP server.                                          *)
(***************************************************************************)

(* hashAuthKey: the hex SHA-256 of the raw key, a term over its input. *)
hashAuthKey(raw) == "sha256(" \o raw \o ")"

(* Server.secret, the configured secret. *)
ConfiguredSecret == "s3cret"

(* What a request may present in a parameter or header; "" is absent. *)
Credentials == {"", ConfiguredSecret, "db-owner-key", "wrong-owner-key"}

ValidateOwnerAuthKey(row, rawKey) ==
  IF rawKey = "" THEN FALSE
  ELSE IF row = None THEN FALSE
  ELSE IF row.revoked # 0 THEN FALSE
  ELSE hashAuthKey(rawKey) = row.hashed_key

(* authMiddleware: the status the request leaves the middleware with, 200  *)
(* standing for c.Next(). req.secret is the query parameter, the other     *)
(* fields are the request headers of these names.                          *)
authMiddleware(row, req) ==
  LET secret == IF req.secret # "" THEN req.secret ELSE req.XAuthSecret
  IN IF secret = "" THEN 401
     ELSE IF secret = ConfiguredSecret THEN 200
     ELSE IF ValidateOwnerAuthKey(row, secret) THEN 200 ELSE 401

UpsertOwnerAuthKey(rawKey) ==
  /\ ownerAuthKey' = IF rawKey = "" THEN ownerAuthKey
                     ELSE [hashed_key |-> hashAuthKey(rawKey), revoked |-> 0]
  /\ last' = [NoCall EXCEPT !.op = "upsertOwnerAuthKey"]
  /\ UNCHANGED <<users, packages, managers, managerPackages, nodeUsage, serviceUsage,
                 cacheUsers, sessions, penalties, disconnectQueue,
                 managerEnforcementMode, now, procs, receivers, activeDB, lockManager>>

ProtectedRequest(req) ==
  /\ last' = [NoCall EXCEPT !.op = "request", !.report = req,
                            !.result = [Status |-> authMiddleware(ownerAuthKey, req)]]
  /\ UNCHANGED <<users, packages, managers, managerPackages, nodeUsage, serviceUsage,
                 cacheUsers, sessions, penalties, disconnectQueue,
                 managerEnforcementMode, now, procs, receivers, activeDB, ownerAuthKey, lockManager>>

NextAuth ==
  \/ \E rawKey \in {"", "db-owner-key", "old-owner-key"} : UpsertOwnerAuthKey(rawKey)
  \/ \E q \in Credentials, h \in Credentials, x \in Credentials :
       ProtectedRequest([secret |-> q, HueAPIKey |-> h, XAuthSecret |-> x])

SpecAuth == InitBatch /\ [][NextAuth]_vars

(***************************************************************************)
(* The user locks of the quota engine: CheckQuota runs under the read lock *)
(* of the user's RWMutex, RecordUsage under its write lock. A handler is   *)
(* idle, inside CheckQuota, blocked in Lock() or inside RecordUsage.       *)
(***************************************************************************)

(* The handlers that are at pc for user u; getUserLock gives every caller  *)
(* the one lock that is stored under the user id.                          *)
getUserLock(u, pc) ==
  {h \in Procs : procs[h].pc = pc /\ procs[h].report # None /\ procs[h].report.UserID = u}

(* Lock() that only waits for another writer. *)
CanLock_Shared(u) == getUserLock(u, "recordUsage") = {}

(* sync.RWMutex: RLock() returns when no writer holds the lock and none is *)
(* blocked in Lock(); Lock() returns when nobody holds the lock.           *)
CanRLock(u) == getUserLock(u, "recordUsage") = {} /\ getUserLock(u, "lockWait") = {}

CanLock(u) == getUserLock(u, "recordUsage") = {} /\ getUserLock(u, "checkQuota") = {}

CheckQuotaEnter(h, u) ==
  /\ procs[h].pc = "idle"
  /\ CanRLock(u)
  /\ procs' = [procs EXCEPT ![h] = [Idle EXCEPT !.pc = "checkQuota",
                                                !.report = Report(u, "s1", 1, 0)]]
  /\ SetState(CurState)
  /\ UnchangedByHandler

CheckQuotaLeave(h) ==
  /\ procs[h].pc = "checkQuota"
  /\ SetState(CheckQuotaState(CurState, procs[h].report.UserID))
  /\ procs' = [procs EXCEPT ![h] = Idle]
  /\ UnchangedByHandler

RecordUsageCall(h, u) ==
  /\ procs[h].pc = "idle"
  /\ packages[PkgOf(u)].current_total < MaxTotal
  /\ procs' = [procs EXCEPT ![h] = [Idle EXCEPT !.pc = "lockWait",
                                                !.report = Report(u, "s1", 1, 0)]]
  /\ SetState(CurState)
  /\ UnchangedByHandler

RecordUsageEnter(h) ==
  /\ procs[h].pc = "lockWait"
  /\ CanLock(procs[h].report.UserID)
  /\ procs' = [procs EXCEPT ![h].pc = "recordUsage"]
  /\ SetState(CurState)
  /\ UnchangedByHandler

RecordUsageLeave(h) ==
  /\ procs[h].pc = "recordUsage"
  /\ LET r == procs[h].report
     IN SetState(IF RecordUsageOk(CurState, r.UserID)
                   THEN RecordUsage(CurState, r.UserID, r.Upload, r.Download)
                   ELSE CurState)
  /\ procs' = [procs EXCEPT ![h] = Idle]
  /\ UnchangedByHandler

NextLock ==
  \/ \E h \in Procs, u \in Users : CheckQuotaEnter(h, u)
  \/ \E h \in Procs : CheckQuotaLeave(h)
  \/ \E h \in Procs, u \in Users : RecordUsageCall(h, u)
  \/ \E h \in Procs : RecordUsageEnter(h)
  \/ \E h \in Procs : RecordUsageLeave(h)

SpecLock == InitConc /\ [][NextLock]_vars

(***************************************************************************)
(* GetManagerAncestors step by step, over a managers table whose parent_id *)
(* column holds any manager id: the schema lets a row name itself or a     *)
(* descendant as its parent. One loop iteration is one step; a traversal   *)
(* that returns hands its ids to the limit check.                          *)
(***************************************************************************)
NoTraversal == [pc |-> "idle", ids |-> << >>, current |-> ""]

InitAncestors ==
  /\ InitCache
  /\ procs = [t \in {"t1"} |-> NoTraversal]
  /\ users = [u \in Users |->
                [status |-> "active", active_package_id |-> PkgOf(u), manager_id |-> Nil]]
  /\ packages = [id \in PkgIds |-> UnlimitedPackage(IF id = PkgOf("u1") THEN "u1" ELSE "u2")]
  /\ managers \in {[m \in NewMgrIds |-> [parent_id |-> parent[m]]] :
                     parent \in [NewMgrIds -> NewMgrIds \cup {Nil}]}
  /\ managerPackages = [m \in NewMgrIds |-> ManagerPackageRow(0, 0, 0)]
  /\ nodeUsage = [n \in {NodeId} |-> [current_upload |-> 0, current_download |-> 0]]
  /\ serviceUsage = [n \in {ServiceId} |-> [current_upload |-> 0, current_download |-> 0]]

(* Lines 1176 and 1177. *)
AncestorsBegin(t, managerID) ==
  /\ procs[t].pc = "idle"
  /\ procs' = [procs EXCEPT ![t] = [pc |-> "loop", ids |-> << >>, current |-> managerID]]
  /\ SetState(CurState)
  /\ UnchangedByHandler

(* Lines 1178 to 1191: one iteration of the loop. *)
AncestorsStep(t) ==
  /\ procs[t].pc = "loop"
  /\ Len(procs[t].ids) < MaxChain
  /\ LET current == procs[t].current
         ids == Append(procs[t].ids, current)
     IN procs' = [procs EXCEPT ![t] =
          IF current = "" THEN [@ EXCEPT !.pc = "done"]
          ELSE IF current \notin DOMAIN managers THEN [@ EXCEPT !.pc = "done", !.ids = ids]
          ELSE IF managers[current].parent_id = Nil \/ managers[current].parent_id = ""
            THEN [@ EXCEPT !.pc = "done", !.ids = ids]
          ELSE [@ EXCEPT !.ids = ids, !.current = managers[current].parent_id]]
  /\ SetState(CurState)
  /\ UnchangedByHandler

(* Line 1193 and CheckManagerLimits from line 1206 on. *)
AncestorsReturn(t) ==
  /\ procs[t].pc = "done"
  /\ last' = [NoCall EXCEPT !.op = "checkManagerLimits",
                            !.result = CheckManagerChain(CurState, procs[t].ids, 1, 0, 0, 0, 0)]
  /\ procs' = [procs EXCEPT ![t] = NoTraversal]
  /\ SetState(CurState)
  /\ UNCHANGED <<managerEnforcementMode, now, receivers, activeDB, ownerAuthKey, lockManager>>

NextAncestors ==
  \/ \E managerID \in NewMgrIds : AncestorsBegin("t1", managerID)
  \/ AncestorsStep("t1")
  \/ AncestorsReturn("t1")

SpecAncestors == InitAncestors /\ [][NextAncestors]_vars

(***************************************************************************)
(* The penalty map under concurrent callers. GetPenalty loads the entry    *)
(* and, when it has expired, deletes the key in a second call on the map;  *)
(* CleanupExpiredPenalties collects the users with an expired entry and    *)
(* then clears their keys. Other goroutines run between the two calls.     *)
(***************************************************************************)
PenaltyProcs == {"h1", "h2", "cleanup"}

NoPenaltyCall == [pc |-> "idle", expired |-> {}]

InitPenalty ==
  /\ InitCache
  /\ procs = [h \in PenaltyProcs |-> NoPenaltyCall]
  /\ InitStore({[id \in PkgIds |-> UnlimitedPackage(IF id = PkgOf("u1") THEN "u1" ELSE "u2")]},
               UnlimitedManagers)

(* memory.go lines 232 to 235: the load and the test of the entry. *)
GetPenaltyLoad(h, u) ==
  /\ h # "cleanup"
  /\ procs[h].pc = "idle"
  /\ penalties[u] # None
  /\ PenaltyExpired(penalties[u], now)
  /\ procs' = [procs EXCEPT ![h] = [pc |-> "delete", expired |-> {u}]]
  /\ SetState(CurState)
  /\ UnchangedByHandler

(* geo.go lines 186 to 197: the range over the penalties. *)
GetExpiredPenalties(h) ==
  /\ h = "cleanup"
  /\ procs[h].pc = "idle"
  /\ procs' = [procs EXCEPT ![h] =
                 [pc |-> "delete",
                  expired |-> {u \in Users : /\ penalties[u] # None
                                             /\ PenaltyExpired(penalties[u], now)}]]
  /\ SetState(CurState)
  /\ UnchangedByHandler

(* memory.go line 236 and geo.go lines 201 to 204: the keys are deleted. *)
PenaltyDelete(h) ==
  /\ procs[h].pc = "delete"
  /\ penalties' = [u \in Users |-> IF u \in procs[h].expired THEN None ELSE penalties[u]]
  /\ procs' = [procs EXCEPT ![h] = NoPenaltyCall]
  /\ UNCHANGED <<users, packages, managers, managerPackages, nodeUsage, serviceUsage,
                 cacheUsers, sessions, disconnectQueue, lockManager>>
  /\ UnchangedByHandler

(* ApplyPenalty by a handler whose own penalty check found no entry. *)
ApplyPenaltyCall(u) ==
  /\ penalties[u] = None
  /\ SetState(ApplyPenalty(CurState, u, "concurrent session limit exceeded", OneOrder, now))
  /\ last' = [NoCall EXCEPT !.op = "applyPenalty"]
  /\ UNCHANGED <<managerEnforcementMode, now, procs, receivers, activeDB, ownerAuthKey, lockManager>>

NextPenalty ==
  \/ \E h \in PenaltyProcs, u \in Users : GetPenaltyLoad(h, u)
  \/ \E h \in PenaltyProcs : GetExpiredPenalties(h)
  \/ \E h \in PenaltyProcs : PenaltyDelete(h)
  \/ \E u \in Users : ApplyPenaltyCall(u)
  \/ Tick

SpecPenalty == InitPenalty /\ [][NextPenalty]_vars

(***************************************************************************)
(* RecordUsage with a store that may fail one of its calls. failAt names   *)
(* the call that returns an error, or is "" when none does. The update of  *)
(* the package row and the transaction over the manager rows are separate  *)
(* statements; what was written before the failing call stays written.     *)
(***************************************************************************)
StoreCalls == {"GetPackageByUserID", "UpdatePackageUsage", "GetUser", "ApplyManagerUsageDelta"}

RecordUsageFailing(s, u, upload, download, failAt) ==
  LET pkg == GetPackageByUserID(s, u)
      s1 == UpdatePackageUsage(s, pkg.id, upload, download)
      user == s1.users[u]
  IN IF failAt = "GetPackageByUserID" \/ pkg = None THEN [s |-> s, err |-> TRUE]
     ELSE IF failAt = "UpdatePackageUsage" THEN [s |-> s, err |-> TRUE]
     ELSE IF failAt = "GetUser" THEN [s |-> s1, err |-> TRUE]
     ELSE IF failAt = "ApplyManagerUsageDelta" /\ user # None /\ user.manager_id # Nil
       THEN [s |-> s1, err |-> TRUE]
     ELSE [s |-> RecordUsage(s, u, upload, download), err |-> FALSE]

RecordUsageOnStore(u, upload, download, failAt) ==
  /\ packages[PkgOf(u)].current_total + upload + download <= MaxTotal
  /\ LET out == RecordUsageFailing(CurState, u, upload, download, failAt)
     IN /\ SetState(out.s)
        /\ last' = [NoCall EXCEPT !.op = "recordUsage",
                                  !.report = Report(u, "s1", upload, download),
                                  !.result = [Err |-> out.err, FailAt |-> failAt]]
  /\ UNCHANGED <<managerEnforcementMode, now, procs, receivers, activeDB, ownerAuthKey, lockManager>>

NextFault ==
  \E upload \in 0..1, failAt \in StoreCalls \cup {""} :
    RecordUsageOnStore("u1", upload, 1 - upload, failAt)

SpecFault == InitMgr /\ [][NextFault]_vars

(***************************************************************************)
(* CheckManagerLimits as a function of the stored manager packages: the    *)
(* packages of child and of its parent root are drawn with any status, any *)
(* limit of 0 (none) or more and any counter; a call gives the manager,    *)
(* the traffic delta and the session delta.                                *)
(***************************************************************************)
ManagerPackageStatuses == {"active", "inactive"}

CheckedPackages ==
  {[ManagerPackageRow(total, upload, 0) EXCEPT
      !.status = st, !.max_sessions = ms,
      !.current_upload = cur, !.current_total = cur, !.current_sessions = cur] :
     total \in {0, MaxLimit}, upload \in 0..1, ms \in 0..1, cur \in 0..1,
     st \in ManagerPackageStatuses}

InitLimits ==
  /\ InitMemory
  /\ InitStore({[id \in PkgIds |-> UnlimitedPackage(IF id = PkgOf("u1") THEN "u1" ELSE "u2")]},
               [MgrIds -> CheckedPackages])

CheckManagerLimitsCall(managerID, upload, download, sessionDelta) ==
  /\ last' = [NoCall EXCEPT
                !.op = "CheckManagerLimits",
                !.report = [ManagerID |-> managerID, Upload |-> upload,
                            Download |-> download, SessionDelta |-> sessionDelta],
                !.result = CheckManagerLimits(CurState, managerID, upload, download,
                                              sessionDelta, 0, 0)]
  /\ SetState(CurState)
  /\ UNCHANGED <<managerEnforcementMode, now, procs, receivers, activeDB, ownerAuthKey, lockManager>>

NextLimits ==
  \E managerID \in MgrIds \cup {""}, upload \in 0..MaxDelta, download \in 0..1,
     sessionDelta \in 0..1 :
    CheckManagerLimitsCall(managerID, upload, download, sessionDelta)

SpecLimits == InitLimits /\ [][NextLimits]_vars

(***************************************************************************)
(* SpecReject: reports of u1 (package total limit TotalLimit) on session   *)
(* s1 while the clock ticks, so that a report of a known session can be    *)
(* rejected by the quota check at a later time than the session was seen.  *)
(***************************************************************************)
NextReject ==
  \/ \E upload \in {1, MaxDelta}, download \in 0..1 :
       ReportUsage("u1", "s1", upload, download, OneOrder)
  \/ Tick

SpecReject == InitBatch /\ [][NextReject]_vars

(***************************************************************************)
(* ActiveDB under concurrent callers.  BufferUsage and Flush take bufferMu *)
(* for their whole body; inside, the append, the transaction of            *)
(* flushBuffer and the clearing of the buffer after the commit are steps   *)
(* of their own.  Report ids come from the client, so two reports may      *)
(* carry one id; last.report is the set of reports that were appended,     *)
(* last.result tells whether a transaction failed.                         *)
(***************************************************************************)
BufferProcs == {"b1", "b2", "f1"}

NoBufferCall == [pc |-> "idle", report |-> None]

BufferedReports ==
  {[ID |-> id, UserID |-> "u1", Upload |-> 1] : id \in {"r1", "r2", "r3"}}
    \cup {[ID |-> "r1", UserID |-> "u2", Upload |-> 1]}

InitBuffer ==
  /\ InitCache
  /\ procs = [h \in BufferProcs |-> NoBufferCall]
  /\ InitStore({[id \in PkgIds |-> UnlimitedPackage(IF id = PkgOf("u1") THEN "u1" ELSE "u2")]},
               UnlimitedManagers)

(* bufferMu that never blocks. *)
bufferMuFree_Always == TRUE

(* bufferMu is held from Lock() to the deferred Unlock(). *)
bufferMuFree == \A h \in BufferProcs : procs[h].pc = "idle"

UnchangedByActiveDB ==
  /\ SetState(CurState)
  /\ UNCHANGED <<managerEnforcementMode, now, receivers, ownerAuthKey, lockManager>>

(* Lines 79 to 82: BufferUsage locks and appends. *)
BufferUsageAppend(h, report) ==
  /\ h # "f1"
  /\ procs[h].pc = "idle"
  /\ bufferMuFree
  /\ last.op = "active" => report \notin last.report
  /\ activeDB' = [activeDB EXCEPT !.buffer = Append(@, report)]
  /\ procs' = [procs EXCEPT ![h] = [pc |-> "locked", report |-> report]]
  /\ last' = [NoCall EXCEPT !.op = "active",
                            !.report = IF last.op = "active" THEN last.report \cup {report}
                                       ELSE {report},
                            !.result = IF last.op = "active" THEN last.result
                                       ELSE [Err |-> FALSE]]
  /\ UnchangedByActiveDB

(* Lines 94 and 95: Flush locks. *)
FlushLock(h) ==
  /\ h = "f1"
  /\ procs[h].pc = "idle"
  /\ bufferMuFree
  /\ procs' = [procs EXCEPT ![h] = [pc |-> "locked", report |-> None]]
  /\ UNCHANGED <<activeDB, last>>
  /\ UnchangedByActiveDB

(* Lines 85 to 89 and 101 to 136: BufferUsage returns below flushSize; the *)
(* transaction inserts the buffered reports and commits or rolls back.     *)
FlushCommit(h) ==
  /\ procs[h].pc = "locked"
  /\ LET skip == \/ procs[h].report # None /\ Len(activeDB.buffer) < FlushSize
                 \/ activeDB.buffer = << >>
         f == flushBuffer(activeDB)
         failed == ~skip /\ f = activeDB
     IN /\ activeDB' = IF skip THEN activeDB ELSE [activeDB EXCEPT !.rows = f.rows]
        /\ procs' = [procs EXCEPT ![h] = IF skip \/ failed THEN NoBufferCall
                                         ELSE [@ EXCEPT !.pc = "committed"]]
        /\ last' = IF failed
                     THEN [NoCall EXCEPT !.op = "active",
                                         !.report = IF last.op = "active" THEN last.report
                                                    ELSE {},
                                         !.result = [Err |-> TRUE]]
                     ELSE last
  /\ UnchangedByActiveDB

(* Lines 138 to 140: the buffer is cleared and the lock released. *)
FlushClear(h) ==
  /\ procs[h].pc = "committed"
  /\ activeDB' = [activeDB EXCEPT !.buffer = << >>]
  /\ procs' = [procs EXCEPT ![h] = NoBufferCall]
  /\ UNCHANGED last
  /\ UnchangedByActiveDB

NextBuffer ==
  \/ \E h \in BufferProcs, report \in BufferedReports : BufferUsageAppend(h, report)
  \/ \E h \in BufferProcs : FlushLock(h)
  \/ \E h \in BufferProcs : FlushCommit(h)
  \/ \E h \in BufferProcs : FlushClear(h)

SpecBuffer == InitBuffer /\ [][NextBuffer]_vars









(***************************************************************************)
(* Claims.                                                                 *)
(***************************************************************************)
AcceptedReport == last.op = "report" /\ last.result.Accepted

(* C1: a report is never accepted for a user whose stored status (the      *)
(* users row, when the report arrives) is not active, whether the quota    *)
(* check is answered from the user cache or from the database.             *)
C1_AcceptedOnlyIfStoredActive ==
  [][(last'.op = "report" /\ last'.result.Accepted)
       => users[last'.report.UserID].status = "active"]_vars

(* The stored package of user u is over one of its positive limits once    *)
(* the report's upload and download are added.                             *)
OverStoredLimit(pkg, upload, download) ==
  \/ pkg.total_traffic > 0 /\ pkg.current_total + upload + download > pkg.total_traffic
  \/ pkg.upload_limit > 0 /\ pkg.current_upload + upload > pkg.upload_limit
  \/ pkg.download_limit > 0 /\ pkg.current_download + download > pkg.download_limit

(* C2: on every quota check of a report from an active user with an active *)
(* package, cache hit or cache miss, if the package's current counter plus *)
(* the report's delta exceeds one of its positive limits (total, upload or *)
(* download), the check rejects with quotaExceeded = true.                 *)
C2_OverLimitRejected ==
  [][(/\ last'.op = "report"
      /\ last'.quota # None
      /\ users[last'.report.UserID].status = "active"
      /\ packages[PkgOf(last'.report.UserID)].status = "active"
      /\ OverStoredLimit(packages[PkgOf(last'.report.UserID)],
                         last'.report.Upload, last'.report.Download))
       => (~last'.quota.CanUse /\ last'.quota.QuotaExceeded)]_vars

(* One of the package's positive limits is reached by its stored counters. *)
LimitReached(pkg) ==
  \/ pkg.total_traffic > 0 /\ pkg.current_total >= pkg.total_traffic
  \/ pkg.upload_limit > 0 /\ pkg.current_upload >= pkg.upload_limit
  \/ pkg.download_limit > 0 /\ pkg.current_download >= pkg.download_limit

(* C5: right after an accepted report, if one of the package's positive    *)
(* limits (total, upload or download) is reached, the package status and   *)
(* the user status are finish.                                             *)
C5_FinishWhenLimitReached ==
  (AcceptedReport /\ LimitReached(packages[PkgOf(last.report.UserID)]))
    => /\ packages[PkgOf(last.report.UserID)].status = "finish"
       /\ users[last.report.UserID].status = "finish"

(* The session ids in user u's session table. *)
SessionTable(tbl, u) == {sid \in SessionIds : tbl[u][sid] # None}

QuotaRejected(call) ==
  call.op = "report" /\ call.quota # None /\ ~call.quota.CanUse /\ call.quota.QuotaExceeded

(* C8: when the quota check rejects a report with quotaExceeded = true,    *)
(* the stored user status becomes suspended, USER_SUSPENDED is emitted,    *)
(* the result has accepted = false, quotaExceeded = true and               *)
(* shouldDisconnect = true, no session is added and no usage is recorded   *)
(* (package, manager, node and service counters stay as they were).        *)
C8_QuotaRejectSuspends ==
  [][QuotaRejected(last')
       => /\ users'[last'.report.UserID].status = "suspended"
          /\ \E i \in DOMAIN last'.events : last'.events[i] = "USER_SUSPENDED"
          /\ ~last'.result.Accepted
          /\ last'.result.QuotaExceeded
          /\ last'.result.ShouldDisconnect
          /\ SessionTable(sessions', last'.report.UserID)
               = SessionTable(sessions, last'.report.UserID)
          /\ packages' = packages
          /\ managerPackages' = managerPackages
          /\ nodeUsage' = nodeUsage
          /\ serviceUsage' = serviceUsage]_vars

C8_Witness ==
  /\ QuotaRejected(last)
  /\ last.report.Upload + last.report.Download > 0
  /\ users[last.report.UserID].status = "suspended"

(* C3: immediately after an accepted report of a user, the number of the   *)
(* user's session entries whose last_seen_at is within the window of now   *)
(* is at most the package's max_concurrent.                                *)
C3_ActiveSessionsWithinLimit ==
  AcceptedReport
    => GetActiveSessionCount(sessions[last.report.UserID], now)
         <= packages[PkgOf(last.report.UserID)].max_concurrent

(* The counters of the store are left as they were by the step. *)
UsageUnchanged ==
  /\ packages' = packages
  /\ managerPackages' = managerPackages
  /\ nodeUsage' = nodeUsage
  /\ serviceUsage' = serviceUsage

SessionLimitHit(call) ==
  call.op = "report" /\ call.session # None /\ call.session.SessionLimitHit

(* The commands that the step appended to the disconnect queue. *)
Enqueued == SubSeq(disconnectQueue', Len(disconnectQueue) + 1, Len(disconnectQueue'))

(* C7: when the session check of a report hits the concurrency limit, the  *)
(* user gets a penalty expiring one penalty duration from now, exactly one *)
(* disconnect command is enqueued for each session in the user's session   *)
(* table (and no other), PENALTY_APPLIED is emitted, the result has        *)
(* accepted = false, penaltyApplied = true and shouldDisconnect = true, no *)
(* usage is recorded and no session is added.                              *)
C7_SessionLimitPenalty ==
  [][SessionLimitHit(last')
       => LET u == last'.report.UserID
          IN /\ penalties'[u] # None
             /\ penalties'[u].ExpiresAt = now + PenaltyDuration
             /\ Len(disconnectQueue') >= Len(disconnectQueue)
             /\ SubSeq(disconnectQueue', 1, Len(disconnectQueue)) = disconnectQueue
             /\ Len(Enqueued) = Cardinality(SessionTable(sessions, u))
             /\ \A sid \in SessionTable(sessions, u) :
                  \E i \in DOMAIN Enqueued :
                    Enqueued[i].UserID = u /\ Enqueued[i].SessionID = sid
             /\ \E i \in DOMAIN last'.events : last'.events[i] = "PENALTY_APPLIED"
             /\ ~last'.result.Accepted
             /\ last'.result.PenaltyApplied
             /\ last'.result.ShouldDisconnect
             /\ UsageUnchanged
             /\ SessionTable(sessions', u) = SessionTable(sessions, u)]_vars

C7_Witness ==
  /\ SessionLimitHit(last)
  /\ Cardinality(SessionTable(sessions, last.report.UserID)) = 2
  /\ Len(disconnectQueue) >= 2
  /\ last.report.Upload > 0

(* Manager m is manager a or one of its descendants in the managers table. *)
RECURSIVE IsSelfOrDescendant(_, _, _)
IsSelfOrDescendant(m, a, fuel) ==
  \/ m = a
  \/ /\ fuel > 0
     /\ m \in DOMAIN managers
     /\ managers[m].parent_id # Nil
     /\ IsSelfOrDescendant(managers[m].parent_id, a, fuel - 1)

(* What an accepted report of the step adds to manager m: the report's     *)
(* upload and download when its user belongs to m or to a descendant of m. *)
AcceptedFor(m) ==
  /\ last'.op = "report"
  /\ last'.result.Accepted
  /\ IsSelfOrDescendant(users[last'.report.UserID].manager_id, m, Cardinality(MgrIds))

ManagerCountersZero ==
  \A m \in MgrIds :
    /\ managerPackages[m].current_upload = 0
    /\ managerPackages[m].current_download = 0
    /\ managerPackages[m].current_total = 0

(* C10: every manager's counters current_upload, current_download and      *)
(* current_total are the sums of the deltas of the accepted reports of the *)
(* users whose manager is that manager or one of its descendants: they     *)
(* start at zero, an accepted report of such a user adds its upload, its   *)
(* download and their sum, and no other step changes them.                 *)
C10_ManagerCountersAreSums ==
  /\ ManagerCountersZero
  /\ [][\A m \in MgrIds :
          LET up == IF AcceptedFor(m) THEN last'.report.Upload ELSE 0
              down == IF AcceptedFor(m) THEN last'.report.Download ELSE 0
          IN /\ managerPackages'[m].current_upload
                  = managerPackages[m].current_upload + up
             /\ managerPackages'[m].current_download
                  = managerPackages[m].current_download + down
             /\ managerPackages'[m].current_total
                  = managerPackages[m].current_total + up + down]_vars

C10_Witness ==
  /\ AcceptedReport
  /\ last.report.UserID = "u1"
  /\ managerPackages["child"].current_upload > 0
  /\ managerPackages["child"].current_download > 0
  /\ managerPackages["root"].current_total > managerPackages["child"].current_total

(* Manager package mp is over one of its positive traffic limits once the  *)
(* report's upload and download are added.                                 *)
OverManagerLimit(mp, upload, download) ==
  \/ mp.total_limit > 0 /\ mp.current_total + upload + download > mp.total_limit
  \/ mp.upload_limit > 0 /\ mp.current_upload + upload > mp.upload_limit
  \/ mp.download_limit > 0 /\ mp.current_download + download > mp.download_limit

(* The report of the step violates the limit of its user's manager or of   *)
(* one of that manager's ancestors.                                        *)
ManagerViolation ==
  \E m \in MgrIds :
    /\ IsSelfOrDescendant(users[last'.report.UserID].manager_id, m, Cardinality(MgrIds))
    /\ managerPackages[m].status = "active"
    /\ OverManagerLimit(managerPackages[m], last'.report.Upload, last'.report.Download)

(* The report of the step violates a limit of its user's own package. *)
PackageViolation ==
  OverStoredLimit(packages[PkgOf(last'.report.UserID)],
                  last'.report.Upload, last'.report.Download)

ManagerReasons ==
  {"manager total limit reached", "manager upload limit reached",
   "manager download limit reached"}

(* In soft mode a result that blocks never carries a manager's reason, and *)
(* a manager violation that is let through is reported by quotaExceeded    *)
(* and the manager's reason.                                               *)
SoftNeverBlocks ==
  managerEnforcementMode = "soft"
    => /\ ~last'.quota.CanUse => last'.quota.Reason \notin ManagerReasons
       /\ (ManagerViolation /\ last'.quota.CanUse)
            => (last'.quota.QuotaExceeded /\ last'.quota.Reason \in ManagerReasons)

HardBlocks ==
  (managerEnforcementMode \in {"default", "hard"} /\ ManagerViolation)
    => ~last'.quota.CanUse

OwnLimitBlocks == PackageViolation => ~last'.quota.CanUse

(* C9: on every quota check, in soft mode a manager-limit violation does   *)
(* not block (canUse stays true, quotaExceeded and the reason report it),  *)
(* in default and hard mode it blocks, and a violation of the user's own   *)
(* package limits blocks in every mode.                                    *)
C9_EnforcementModes ==
  [][(last'.op = "report" /\ last'.quota # None)
       => (SoftNeverBlocks /\ HardBlocks /\ OwnLimitBlocks)]_vars

(* The reports past their quota check whose usage is not yet recorded. *)
Admitted == {h \in DOMAIN procs : procs[h].pc \in {"add", "record"}}

(* C4 as stated: for a package with total_traffic > 0, under any           *)
(* interleaving of concurrent reports of its user, current_total exceeds   *)
(* total_traffic by at most the delta of one accepted report (at most      *)
(* MaxDelta, the largest delta a report carries).                          *)
C4_OvershootAtMostOneReport ==
  \A id \in PkgIds :
    packages[id].total_traffic > 0
      => packages[id].current_total <= packages[id].total_traffic + MaxDelta

(* C4, amended: current_total stays below total_traffic plus the deltas of *)
(* the reports that are in flight together, one largest delta for each     *)
(* concurrent handler.                                                     *)
C4_OvershootBelowInFlight ==
  \A id \in PkgIds :
    packages[id].total_traffic > 0
      => packages[id].current_total
           < packages[id].total_traffic + Cardinality(Procs) * MaxDelta

C4_Witness ==
  /\ packages[PkgOf("u1")].current_total
       > packages[PkgOf("u1")].total_traffic + MaxDelta
  /\ packages[PkgOf("u1")].status = "finish"
  /\ Admitted = {}

(* The chain of managers above manager m (m itself excluded). *)
ProperAncestors(m) ==
  {a \in DOMAIN managers : a # m /\ IsSelfOrDescendant(m, a, Cardinality(DOMAIN managers))}

(* C11: after any sequence of manager creations, every positive limit of a *)
(* stored manager is at most the same-named positive limit of each of its  *)
(* ancestors, not only of its direct parent.                               *)
C11_LimitsWithinAncestors ==
  \A m \in DOMAIN managers : \A a \in ProperAncestors(m) : \A f \in LimitFields :
    (managerPackages[m][f] > 0 /\ managerPackages[a][f] > 0)
      => managerPackages[m][f] <= managerPackages[a][f]

(* C12: after any sequence of reports, in any interleaving of the          *)
(* concurrent handlers, every package has                                  *)
(* current_total = current_upload + current_download.                      *)
C12_TotalIsUploadPlusDownload ==
  \A id \in PkgIds :
    packages[id].current_total
      = packages[id].current_upload + packages[id].current_download

C12_Witness ==
  /\ packages[PkgOf("u1")].current_upload > 1
  /\ packages[PkgOf("u1")].current_download > 0
  /\ \E h \in DOMAIN procs : procs[h].pc = "record"

(* C13: every enqueued disconnect command is returned by exactly one       *)
(* drain and in enqueue order: a drain returns the whole queue as it was   *)
(* and leaves it empty, and every other step keeps the queued commands in  *)
(* place, only appending behind them.                                      *)
C13_DrainReturnsQueueOnce ==
  [][IF last'.op = "drain"
       THEN last'.batch = disconnectQueue /\ disconnectQueue' = << >>
       ELSE /\ Len(disconnectQueue') >= Len(disconnectQueue)
            /\ SubSeq(disconnectQueue', 1, Len(disconnectQueue)) = disconnectQueue]_vars

C13_Witness ==
  /\ last.op = "drain"
  /\ Len(last.batch) > MaxQueue
  /\ last.batch[1] # last.batch[2]
  /\ disconnectQueue = << >>

(* C14: every disconnect command enqueued by an enforcement decision is    *)
(* returned by some later getDisconnectCommands call of a poller: whenever *)
(* the queue holds a command, a later poll returns a non-empty batch.      *)
C14_EnqueuedEventuallyReturned ==
  (disconnectQueue # << >>) ~> (last.op = "poll" /\ last.batch # << >>)

(* C15: an accepted report emits USER_CONNECTED first if and only if the   *)
(* session id was not yet in the user's session table, then                *)
(* USAGE_RECORDED, and after it PACKAGE_EXPIRED exactly when the package   *)
(* has no traffic remaining after the record; no other event is emitted.   *)
C15_AcceptedEventOrder ==
  [][(last'.op = "report" /\ last'.result.Accepted)
       => LET u == last'.report.UserID
              sid == last'.report.SessionID
          IN \A updatedPkg \in {ScanPackage(packages'[PkgOf(u)])} :
               last'.events =
                 (IF sessions[u][sid] = None THEN <<"USER_CONNECTED">> ELSE << >>)
                 \o <<"USAGE_RECORDED">>
                 \o (IF HasTrafficRemaining(updatedPkg)
                       THEN << >> ELSE <<"PACKAGE_EXPIRED">>)]_vars

C15_Witness ==
  /\ AcceptedReport
  /\ last.events = <<"USER_CONNECTED", "USAGE_RECORDED">>
  /\ packages[PkgOf("u1")].total_traffic > 0

(* C16: a report rejected because the concurrent session limit is reached  *)
(* returns a result with session_limit_hit = true.                         *)
C16_RejectionReportsSessionLimitHit ==
  SessionLimitHit(last) => last.result.SessionLimitHit

(* The command CheckAndEnforceQuota queues for user u. *)
QuotaDisconnect(u) ==
  [UserID |-> u, SessionID |-> "", Reason |-> "quota_exceeded", NodeID |-> ""]

(* C17: checkAndEnforce(user) decides from the stored counters alone: if   *)
(* and only if a positive limit of the user's package is crossed, the      *)
(* status becomes suspended and one disconnect command with reason         *)
(* quota_exceeded is enqueued; otherwise the status and the disconnect     *)
(* queue are unchanged.                                                    *)
C17_EnforceFromStoredCounters ==
  [][last'.op = "enforce"
       => LET u == last'.report.UserID
          IN IF LimitReached(packages[PkgOf(u)])
               THEN /\ users'[u].status = "suspended"
                    /\ disconnectQueue' = Append(disconnectQueue, QuotaDisconnect(u))
               ELSE /\ users'[u].status = users[u].status
                    /\ disconnectQueue' = disconnectQueue]_vars

(* C18: a usage report or checkAndEnforce changes a user's status only     *)
(* starting from active; a user whose stored status is inactive, expired,  *)
(* suspended or finish is never moved to suspended or finish by them.      *)
C18_StatusChangesOnlyFromActive ==
  [][last'.op \in {"report", "enforce"}
       => \A u \in Users :
            (users[u].status # "active" /\ users'[u].status \in {"suspended", "finish"})
              => users'[u].status = users[u].status]_vars

(* The state the single-report path leaves after the requests reqs. *)
RECURSIVE StateAfter(_, _)
StateAfter(s, reqs) ==
  IF reqs = << >> THEN s
  ELSE StateAfter(GrpcReportUsage(s, Head(reqs).report, Head(reqs).storeFails, OneOrder,
                                  managerEnforcementMode, now).s, Tail(reqs))

(* C19: batchReportUsage returns exactly one result per report, at the     *)
(* report's index; each result is the answer of the single-report path in  *)
(* the state the earlier reports of the batch left, whether they were      *)
(* accepted, rejected or failed, and all reports of the batch are applied. *)
C19_BatchOneResultPerReport ==
  [][last'.op = "batch"
       => LET reqs == last'.report.reqs
              results == last'.result.results
          IN /\ Len(results) = Len(reqs)
             /\ \A i \in 1..Len(reqs) :
                  \A out \in {GrpcReportUsage(StateAfter(CurState, SubSeq(reqs, 1, i - 1)),
                                              reqs[i].report, reqs[i].storeFails, OneOrder,
                                              managerEnforcementMode, now)} :
                     /\ i \in DOMAIN results
                     /\ results[i].UserID = reqs[i].report.UserID
                     /\ results[i].Accepted = (~out.err /\ out.result.Accepted)
             /\ \A final \in {StateAfter(CurState, reqs)} :
                  /\ packages' = final.packages
                  /\ sessions' = final.sessions]_vars

C19_Witness ==
  /\ last.op = "batch"
  /\ Len(last.report.reqs) = MaxBatch
  /\ last.report.reqs[1].storeFails
  /\ last.report.reqs[1].report.UserID # last.report.reqs[MaxBatch].report.UserID
  /\ ~last.result.results[1].Accepted
  /\ last.result.results[MaxBatch].Accepted

(* The step is the send of publisher p to receiver id. *)
SendStep(p, id) ==
  /\ last'.op = "send"
  /\ procs[p].pc = "send"
  /\ id \in procs[p].todo
  /\ procs'[p] # procs[p]
  /\ id \notin procs'[p].todo

(* C20: Publish never blocks (the send to a receiver can always be taken); *)
(* a receiver whose filter matches the event's type, an empty filter       *)
(* matching every type, gets the event appended when its buffer has room   *)
(* and keeps its buffer otherwise, whatever the other receivers' buffers   *)
(* hold, which the send leaves alone; and no channel ever holds an event   *)
(* whose type is outside its receiver's filter.                            *)
C20_PublishBestEffort ==
  /\ [](\A id \in DOMAIN receivers : \A i \in DOMAIN receivers[id].Channel :
          receivers[id].Types = {} \/ receivers[id].Channel[i] \in receivers[id].Types)
  /\ [](\A p \in Publishers : \A id \in procs[p].todo : ENABLED PublishSend(p, id))
  /\ [][\A p \in Publishers : \A id \in DOMAIN receivers :
          SendStep(p, id)
            => LET r == receivers[id]
                   matches == r.Types = {} \/ procs[p].event \in r.Types
               IN /\ receivers'[id].Channel =
                       IF matches /\ Len(r.Channel) < r.Cap
                         THEN Append(r.Channel, procs[p].event) ELSE r.Channel
                  /\ \A other \in DOMAIN receivers \ {id} :
                       receivers'[other] = receivers[other]]_vars

C20_Witness ==
  /\ last.op = "send"
  /\ DOMAIN receivers = ReceiverIds
  /\ receivers["usage"].Types = {"USAGE_RECORDED"}
  /\ receivers["usage"].Cap = 1
  /\ receivers["usage"].Channel = <<"USAGE_RECORDED">>
  /\ receivers["all"].Channel = <<"USAGE_RECORDED", "USER_CONNECTED">>
  /\ \E p \in Publishers : procs[p].pc = "send" /\ procs[p].event = "USAGE_RECORDED"
                           /\ procs[p].todo = {"all"}

(* C21: a flush() that directly follows a flush(), with no buffer() call   *)
(* in between, writes no row and leaves the usage_reports table and the    *)
(* in-memory buffer unchanged.                                             *)
C21_SecondFlushIsNoOp ==
  [][(last.op = "flush" /\ last'.op = "flush") => activeDB' = activeDB]_vars

C21_Witness ==
  /\ last.op = "flush"
  /\ last.result.Again
  /\ ~last.result.Err
  /\ Cardinality(DOMAIN activeDB.rows) > 1

(* The raw addresses that reports carry. *)
RawIPs == {ClientIPOf(sid) : sid \in SessionIds} \ {""}

(* C22: after any sequence of reports, no session entry, stored event or   *)
(* disconnect command holds the raw client IP of a report; the session     *)
(* entry of a report that carried an address holds its salted hash.        *)
C22_NoRawIPKept ==
  /\ \A u \in Users : \A sid \in SessionIds :
       sessions[u][sid] # None
         => /\ sessions[u][sid].IPHash \notin RawIPs
            /\ sessions[u][sid].IPHash = hashIP(ClientIPOf(sid), Today)
  /\ \A i \in DOMAIN disconnectQueue :
       {disconnectQueue[i].UserID, disconnectQueue[i].SessionID,
        disconnectQueue[i].Reason, disconnectQueue[i].NodeID} \cap RawIPs = {}
  /\ \A i \in DOMAIN last.events : last.events[i] \notin RawIPs

C22_Witness ==
  /\ sessions["u1"]["s1"] # None
  /\ sessions["u1"]["s1"].IPHash # ""
  /\ disconnectQueue # << >>
  /\ last.op = "report"
  /\ last.report.ClientIP \in RawIPs

(* A presented value that the server accepts: the configured secret or the *)
(* raw key of the stored owner key that is not revoked.                    *)
ValidCredential(v) ==
  \/ v = ConfiguredSecret
  \/ /\ v # ""
     /\ ownerAuthKey # None
     /\ ownerAuthKey.revoked = 0
     /\ ownerAuthKey.hashed_key = hashAuthKey(v)

(* C23: a REST request to a protected route is authorized iff the value in *)
(* the query parameter secret or in the header Hue-API-Key is the          *)
(* configured secret or the raw key of the stored owner key that is not    *)
(* revoked; every other request gets 401.                                  *)
C23_AuthorizedIffKeyPresented ==
  last.op = "request"
    => /\ last.result.Status \in {200, 401}
       /\ last.result.Status = 200
            <=> (ValidCredential(last.report.secret) \/ ValidCredential(last.report.HueAPIKey))

(* C24: for one user, executions of recordUsage overlap neither each other *)
(* nor a quota check of that user; a handler blocked on a user's lock is   *)
(* blocked by a handler of that same user; the lock of a user that no      *)
(* handler works on is free, whatever handlers of other users hold.        *)
C24_UserLockExcludes ==
  \A u \in Users :
    /\ Cardinality(getUserLock(u, "recordUsage")) <= 1
    /\ getUserLock(u, "recordUsage") # {} => getUserLock(u, "checkQuota") = {}
    /\ (getUserLock(u, "lockWait") # {} /\ ~CanLock(u))
         => getUserLock(u, "recordUsage") \cup getUserLock(u, "checkQuota") # {}
    /\ (\A h \in Procs : procs[h].pc # "idle" => procs[h].report.UserID # u)
         => CanRLock(u) /\ CanLock(u)

(* Two quota checks of u1 overlap while a handler records for u2. *)
C24_Witness ==
  /\ Cardinality(getUserLock("u1", "checkQuota")) = 2
  /\ getUserLock("u2", "recordUsage") # {}
  /\ packages[PkgOf("u1")].current_total > 0

(* C25: the traversal of the manager chain visits no manager twice: on a   *)
(* cyclic or self-referential parent_id chain it stops at the first        *)
(* repeated manager, so that the limit check gets its ids and returns.     *)
C25_TraversalStopsAtRepeat ==
  \A i \in DOMAIN procs["t1"].ids : \A j \in DOMAIN procs["t1"].ids :
    i # j => procs["t1"].ids[i] # procs["t1"].ids[j]

(* C26: a penalty that was applied stays in the map until it expires: no   *)
(* step of a concurrent penalty check or cleanup, which saw an older       *)
(* expired entry of the user, removes an entry that has not expired.       *)
C26_UnexpiredPenaltyStays ==
  [][\A u \in Users :
       (penalties[u] # None /\ ~PenaltyExpired(penalties[u], now))
         => penalties'[u] # None]_vars

(* C27: recordUsage is all-or-nothing: when it returns an error, neither   *)
(* the package counters nor any manager counter nor the cached counters    *)
(* have been changed by the report.                                        *)
C27_RecordUsageAllOrNothing ==
  [][(last'.op = "recordUsage" /\ last'.result.Err)
       => /\ packages' = packages
          /\ managerPackages' = managerPackages
          /\ cacheUsers' = cacheUsers]_vars

(* C28: for the same starting state and the same report, the RPC           *)
(* reportUsage handler returns the result fields and makes the state       *)
(* changes (user status, sessions, penalties, disconnect commands,         *)
(* counters, emitted events) of the core usage pipeline.                   *)
C28_RpcEqualsPipeline ==
  [][last'.op = "report"
       => \A g \in {GrpcReportUsage(CurState, last'.report, FALSE, OneOrder,
                                    managerEnforcementMode, now)} :
            /\ ~g.err
            /\ g.result = last'.result
            /\ g.s.users = users'
            /\ g.s.sessions = sessions'
            /\ g.s.penalties = penalties'
            /\ g.s.disconnectQueue = disconnectQueue'
            /\ g.s.packages = packages'
            /\ g.s.managerPackages = managerPackages'
            /\ g.s.events = last'.events]_vars

(* The reasons of the limits of manager package mp that the call of the    *)
(* last step would exceed: a positive limit L with current + delta > L.    *)
ViolatedReasons(mp, call) ==
  {r \in {"manager total limit reached", "manager upload limit reached",
          "manager max sessions reached"} :
     \/ /\ r = "manager total limit reached"
        /\ mp.total_limit > 0
        /\ mp.current_total + call.Upload + call.Download > mp.total_limit
     \/ /\ r = "manager upload limit reached"
        /\ mp.upload_limit > 0
        /\ mp.current_upload + call.Upload > mp.upload_limit
     \/ /\ r = "manager max sessions reached"
        /\ mp.max_sessions > 0
        /\ mp.current_sessions + call.SessionDelta > mp.max_sessions}

(* The managers on the chain of the call whose active package the call     *)
(* would take over a limit.                                                *)
Violators(call) ==
  {m \in MgrIds : /\ IsSelfOrDescendant(call.ManagerID, m, Cardinality(MgrIds))
                  /\ managerPackages[m].status = "active"
                  /\ ViolatedReasons(managerPackages[m], call) # {}}

(* C29: the manager limit check denies iff some active package on the      *)
(* chain from the given manager up to the root has a positive limit L with *)
(* current + delta > L; it names the first such manager in chain order,    *)
(* nearest to the user first, with the reason of a violated dimension;     *)
(* limits of 0 and inactive packages never deny.                           *)
C29_ManagerLimitCheck ==
  last.op = "CheckManagerLimits"
    => /\ last.result.Allowed <=> Violators(last.report) = {}
       /\ ~last.result.Allowed
            => /\ last.result.ManagerID \in Violators(last.report)
               /\ \A m \in Violators(last.report) :
                    IsSelfOrDescendant(last.result.ManagerID, m, Cardinality(MgrIds))
               /\ last.result.Reason
                    \in ViolatedReasons(managerPackages[last.result.ManagerID], last.report)

(* The check for child passes child's inactive package, which is over its  *)
(* limit, and child's limits of 0, and denies by root's session limit.     *)
C29_Witness ==
  /\ last.op = "CheckManagerLimits"
  /\ last.report.ManagerID = "child"
  /\ managerPackages["child"].status = "inactive"
  /\ ViolatedReasons(managerPackages["child"], last.report) # {}
  /\ ~last.result.Allowed
  /\ last.result.ManagerID = "root"
  /\ last.result.Reason = "manager max sessions reached"
  /\ managerPackages["root"].total_limit = 0

(* C30: one USER_CONNECTED per session entry: a handler's session add      *)
(* emits USER_CONNECTED only when it creates the entry, that is when the   *)
(* user's table has no entry of that session id yet, also when several     *)
(* reports with the same new session id are in flight.                     *)
C30_OneConnectedPerSession ==
  [][\A h \in Procs :
       (procs[h].pc = "add" /\ procs'[h].pc = "record")
         => \A added \in {AddSessionStep(CurState, procs[h].report, procs[h].isNew, now)} :
              (\E i \in DOMAIN added.events : added.events[i] = "USER_CONNECTED")
                => sessions[procs[h].report.UserID][procs[h].report.SessionID] = None]_vars

(***************************************************************************)
(* LockManager.GetUserLock, GetNodeLock and GetServiceLock under           *)
(* concurrent callers.  The three functions differ in the map they use;    *)
(* Load and LoadOrStore of sync.Map are atomic steps, the allocation of    *)
(* the new RWMutex between them is local to the caller.  A lock instance   *)
(* is named by the caller that allocated it and the key it was allocated   *)
(* for.                                                                    *)
(***************************************************************************)
LookupProcs == {"g1", "g2", "g3"}

NoLookup == [pc |-> "idle", kind |-> Nil, id |-> Nil, own |-> Nil, lock |-> Nil]

InitLookup ==
  /\ InitCache
  /\ procs = [g \in LookupProcs |-> NoLookup]
  /\ InitStore({[id \in PkgIds |-> UnlimitedPackage(IF id = PkgOf("u1") THEN "u1" ELSE "u2")]},
               UnlimitedManagers)

(* sync.Map.LoadOrStore that stores unconditionally. *)
LoadOrStore_Store(m, key, value) ==
  [map |-> [m EXCEPT ![key] = value], actual |-> value]

(* sync.Map.LoadOrStore: the existing value if there is one, else the      *)
(* given value is stored and returned.                                     *)
LoadOrStore(m, key, value) ==
  IF m[key] # Nil THEN [map |-> m, actual |-> m[key]]
  ELSE [map |-> [m EXCEPT ![key] = value], actual |-> value]

UnchangedByLockManager ==
  /\ SetState(CurState)
  /\ UNCHANGED <<managerEnforcementMode, now, last, receivers, activeDB, ownerAuthKey>>

(* The Load of the lookup: a hit returns the stored lock, a miss goes on   *)
(* to allocate.                                                            *)
GetLockLoad(g, kind, id) ==
  /\ procs[g].pc = "idle"
  /\ procs' = [procs EXCEPT ![g] =
                 IF lockManager[kind][id] # Nil
                   THEN [pc |-> "returned", kind |-> kind, id |-> id, own |-> Nil,
                         lock |-> lockManager[kind][id]]
                   ELSE [pc |-> "miss", kind |-> kind, id |-> id,
                         own |-> g \o "/" \o kind \o "/" \o id, lock |-> Nil]]
  /\ UNCHANGED lockManager
  /\ UnchangedByLockManager

(* The LoadOrStore of the lookup with the freshly allocated lock.          *)
GetLockLoadOrStore(g) ==
  /\ procs[g].pc = "miss"
  /\ LET r == LoadOrStore(lockManager[procs[g].kind], procs[g].id, procs[g].own)
     IN /\ lockManager' = [lockManager EXCEPT ![procs[g].kind] = r.map]
        /\ procs' = [procs EXCEPT ![g] = [@ EXCEPT !.pc = "returned", !.lock = r.actual]]
  /\ UnchangedByLockManager

(* The caller is done with the returned lock and may look up again.        *)
GetLockDone(g) ==
  /\ procs[g].pc = "returned"
  /\ procs' = [procs EXCEPT ![g] = NoLookup]
  /\ UNCHANGED lockManager
  /\ UnchangedByLockManager

NextLookup ==
  \/ \E g \in LookupProcs, kind \in LockKinds, id \in LockIds : GetLockLoad(g, kind, id)
  \/ \E g \in LookupProcs : GetLockLoadOrStore(g)
  \/ \E g \in LookupProcs : GetLockDone(g)

SpecLookup == InitLookup /\ [][NextLookup]_vars


(***************************************************************************)
(* SpecDeadlock: the mutexes taken by concurrent calls.  A call is the     *)
(* sequence of lock operations its code performs, in order; the store and  *)
(* cache operations between them return and are not steps.  Lock() of a    *)
(* sync.RWMutex first excludes other writers and new readers, then waits   *)
(* for the readers to leave (LockWait); a sync.Mutex is the same without   *)
(* readers.  No mutex is re-entrant.  held is the set of locks a goroutine *)
(* holds: mode "r" read, "p" writer announced, "w" write.                  *)
(***************************************************************************)
DeadlockProcs == {"report1", "report2", "cleanup", "flush", "drain"}

CallKindOf(g) == IF g \in {"report1", "report2"} THEN "report" ELSE g

NoLockCall == [pc |-> 0, user |-> Nil, held |-> {}]

InitDeadlock ==
  /\ InitCache
  /\ procs = [g \in DeadlockProcs |-> NoLockCall]
  /\ InitStore({[id \in PkgIds |-> UnlimitedPackage(IF id = PkgOf("u1") THEN "u1" ELSE "u2")]},
               UnlimitedManagers)

LockOp(op, lock) == [op |-> op, lock |-> lock]

Exclusive(lock) == <<LockOp("Lock", lock), LockOp("LockWait", lock), LockOp("Unlock", lock)>>

Shared(lock) == <<LockOp("RLock", lock), LockOp("RUnlock", lock)>>

(* DB.Transaction that returns without the deferred db.mu.Unlock(). *)
Transaction_NoUnlock == <<LockOp("Lock", "db.mu"), LockOp("LockWait", "db.mu")>>

(* DB.Transaction: db.mu is held for the transaction. *)
Transaction == Exclusive("db.mu")

(* SessionManager.CheckSession of a known session: HasSession,             *)
(* UpdateSessionLastSeen, GetActiveSessionCount.                           *)
CheckSessionLocks(u) ==
  Shared("sc.mu/" \o u) \o Exclusive("sc.mu/" \o u) \o Shared("sc.mu/" \o u)

(* QuotaEngine.CheckQuota: the read lock of the user. *)
CheckQuotaLocks(u) == Shared("userLock/" \o u)

(* QuotaEngine.RecordUsage: the write lock of the user around the          *)
(* transaction of ApplyManagerUsageDelta.                                  *)
RecordUsageLocks(u) ==
  <<LockOp("Lock", "userLock/" \o u), LockOp("LockWait", "userLock/" \o u)>>
    \o Transaction \o <<LockOp("Unlock", "userLock/" \o u)>>

(* Engine.ProcessUsageReport, the path of an accepted report. *)
ProcessUsageReportLocks(u) ==
  CheckSessionLocks(u) \o CheckQuotaLocks(u) \o Exclusive("sc.mu/" \o u) \o RecordUsageLocks(u)

(* The positions at which ProcessUsageReport may return early: after the   *)
(* session check and after the quota check.                                *)
EarlyReturns(u) ==
  {Len(CheckSessionLocks(u)) + 1, Len(CheckSessionLocks(u) \o CheckQuotaLocks(u)) + 1}

LockProgram(g, u) ==
  IF CallKindOf(g) = "report" THEN ProcessUsageReportLocks(u)
  ELSE IF g = "cleanup" THEN Exclusive("sc.mu/u1") \o Exclusive("sc.mu/u2")
  ELSE IF g = "flush" THEN Exclusive("bufferMu")
  ELSE Exclusive("disconnectMu")

(* The goroutines whose holdings keep g from its next lock operation. *)
WaitsFor(g) ==
  IF procs[g].pc = 0 \/ procs[g].pc > Len(LockProgram(g, procs[g].user)) THEN {}
  ELSE LET o == LockProgram(g, procs[g].user)[procs[g].pc]
           Holders(modes) ==
             {h \in DeadlockProcs :
                \E x \in procs[h].held : x.lock = o.lock /\ x.mode \in modes}
       IN CASE o.op = "Lock" -> Holders({"p", "w"})
            [] o.op = "LockWait" -> Holders({"r"})
            [] o.op = "RLock" -> Holders({"p", "w"})
            [] OTHER -> {}

UnchangedByLocks ==
  /\ SetState(CurState)
  /\ UNCHANGED <<managerEnforcementMode, now, last, receivers, activeDB, ownerAuthKey, lockManager>>

LockCall(g, u) ==
  /\ procs[g].pc = 0
  /\ procs' = [procs EXCEPT ![g] = [@ EXCEPT !.pc = 1, !.user = u]]
  /\ UnchangedByLocks

LockStep(g) ==
  /\ procs[g].pc > 0
  /\ procs[g].pc <= Len(LockProgram(g, procs[g].user))
  /\ WaitsFor(g) = {}
  /\ LET o == LockProgram(g, procs[g].user)[procs[g].pc]
         held == procs[g].held
     IN procs' = [procs EXCEPT ![g] =
          [@ EXCEPT !.pc = @ + 1,
                    !.held =
                      CASE o.op = "Lock" -> held \cup {[lock |-> o.lock, mode |-> "p"]}
                        [] o.op = "LockWait" ->
                             (held \ {[lock |-> o.lock, mode |-> "p"]})
                               \cup {[lock |-> o.lock, mode |-> "w"]}
                        [] o.op = "RLock" -> held \cup {[lock |-> o.lock, mode |-> "r"]}
                        [] o.op = "RUnlock" -> held \ {[lock |-> o.lock, mode |-> "r"]}
                        [] OTHER -> held \ {[lock |-> o.lock, mode |-> "w"]}]]
  /\ UnchangedByLocks

LockReturn(g) ==
  /\ procs[g].pc > 0
  /\ \/ procs[g].pc > Len(LockProgram(g, procs[g].user))
     \/ CallKindOf(g) = "report" /\ procs[g].pc \in EarlyReturns(procs[g].user)
  /\ procs' = [procs EXCEPT ![g] = [@ EXCEPT !.pc = 0, !.user = Nil]]
  /\ UnchangedByLocks

NextDeadlock ==
  \/ \E g \in DeadlockProcs :
       \E u \in IF CallKindOf(g) = "report" THEN Users ELSE {Nil} : LockCall(g, u)
  \/ \E g \in DeadlockProcs : LockStep(g)
  \/ \E g \in DeadlockProcs : LockReturn(g)

SpecDeadlock == InitDeadlock /\ [][NextDeadlock]_vars


(***************************************************************************)
(* SpecShutdown: main, the flush goroutine and the flush ticker.  main     *)
(* serves reports until the signal, flushes, stops the servers and         *)
(* returns; its deferred calls run last in first out: flushTicker.Stop(),  *)
(* cancel(), historyDB.Close(), activeDB.Close(), userDB.Close().  The     *)
(* goroutine selects on ctx.Done() and flushTicker.C, whose buffer holds   *)
(* one tick; when both are ready the select takes either.  The process     *)
(* ends when main has returned.                                            *)
(***************************************************************************)
MainSteps == <<"serving", "finalFlush", "stopServers", "stopTicker", "cancel",
               "closeHistory", "closeActive", "closeUser", "exited">>

InitShutdown ==
  /\ InitCache
  /\ procs = [main |-> 1, flusher |-> "select", tick |-> FALSE, tickerStopped |-> FALSE,
              ctxDone |-> FALSE, activeClosed |-> FALSE]
  /\ InitStore({[id \in PkgIds |-> UnlimitedPackage(IF id = PkgOf("u1") THEN "u1" ELSE "u2")]},
               UnlimitedManagers)

mainAt == MainSteps[procs.main]

UnchangedByMain ==
  /\ SetState(CurState)
  /\ UNCHANGED <<managerEnforcementMode, now, last, receivers, ownerAuthKey, lockManager>>

(* The servers handle a report while main waits for the signal. *)
ServeReport(upload, download) ==
  /\ mainAt = "serving"
  /\ ReportUsage("u1", "s1", upload, download, OneOrder)

(* The runtime sends a tick unless the ticker is stopped or a tick waits. *)
TickerFire ==
  /\ mainAt # "exited"
  /\ ~procs.tickerStopped
  /\ ~procs.tick
  /\ procs' = [procs EXCEPT !.tick = TRUE]
  /\ UNCHANGED activeDB
  /\ UnchangedByMain

(* Line 104: the select of the goroutine takes ctx.Done() and returns. *)
FlusherDone ==
  /\ mainAt # "exited"
  /\ procs.flusher = "select"
  /\ procs.ctxDone
  /\ procs' = [procs EXCEPT !.flusher = "exited"]
  /\ UNCHANGED activeDB
  /\ UnchangedByMain

(* Line 106: the select takes the tick and the goroutine calls Flush. *)
FlusherTick ==
  /\ mainAt # "exited"
  /\ procs.flusher = "select"
  /\ procs.tick
  /\ procs' = [procs EXCEPT !.flusher = "flushing", !.tick = FALSE]
  /\ UNCHANGED activeDB
  /\ UnchangedByMain

(* Lines 107 to 109: Flush returns; on a closed store it fails. *)
FlusherFlush ==
  /\ mainAt # "exited"
  /\ procs.flusher = "flushing"
  /\ procs' = [procs EXCEPT !.flusher = "select"]
  /\ activeDB' = IF procs.activeClosed THEN activeDB ELSE flushBuffer(activeDB)
  /\ UnchangedByMain

(* Lines 164 to 192 and the deferred calls of lines 55 to 100: one step of *)
(* main.                                                                   *)
MainStep ==
  /\ mainAt # "exited"
  /\ procs' = [procs EXCEPT
                 !.main = @ + 1,
                 !.tickerStopped = @ \/ mainAt = "stopTicker",
                 !.ctxDone = @ \/ mainAt = "cancel",
                 !.activeClosed = @ \/ mainAt = "closeActive"]
  /\ activeDB' = IF mainAt = "finalFlush" THEN flushBuffer(activeDB) ELSE activeDB
  /\ UnchangedByMain

NextShutdown ==
  \/ \E upload \in {1, MaxDelta}, download \in 0..1 : ServeReport(upload, download)
  \/ TickerFire
  \/ FlusherDone
  \/ FlusherTick
  \/ FlusherFlush
  \/ MainStep

SpecShutdown == InitShutdown /\ [][NextShutdown]_vars


(* The usage counters of a packages or manager_packages row. *)
CountersOf(row) == <<row.current_upload, row.current_download, row.current_total>>

(* C31: a report rejected at the penalty check, the package load, the      *)
(* session check or the quota check leaves the package, manager, node and  *)
(* service counters and the user's session table, entries and their        *)
(* last_seen_at, unchanged.                                                *)
C31_RejectedReportChangesNothing ==
  [][(/\ last'.op = "report"
      /\ ~last'.result.Accepted
      /\ last'.result.Reason # "failed to record usage")
       => /\ \A id \in PkgIds : CountersOf(packages'[id]) = CountersOf(packages[id])
          /\ \A m \in MgrIds : CountersOf(managerPackages'[m]) = CountersOf(managerPackages[m])
          /\ nodeUsage' = nodeUsage
          /\ serviceUsage' = serviceUsage
          /\ sessions'[last'.report.UserID] = sessions[last'.report.UserID]]_vars

(* How often report r is in the buffer, and whether its row is stored. *)
TimesBuffered(r) == Cardinality({i \in DOMAIN activeDB.buffer : activeDB.buffer[i] = r})

Stored(r) == r.ID \in DOMAIN activeDB.rows /\ activeDB.rows[r.ID] = r

(* C32: under any interleaving of concurrent buffer() and flush() calls,   *)
(* no buffered report is lost and none is written twice: a report that was *)
(* appended is in the buffer once or is the stored row of its id, and,     *)
(* outside a flush between its commit and its clearing of the buffer,      *)
(* never both.                                                             *)
C32_BufferedExactlyOnce ==
  last.op = "active"
    => \A r \in last.report :
         /\ TimesBuffered(r) <= 1
         /\ TimesBuffered(r) = 1 \/ Stored(r)
         /\ (\A h \in BufferProcs : procs[h].pc # "committed")
              => ~(TimesBuffered(r) = 1 /\ Stored(r))

(* Three reports were written by the flush that BufferUsage runs at        *)
(* flushSize, a fourth is buffered and Flush holds the lock.               *)
C32_Witness ==
  /\ last.op = "active"
  /\ Cardinality(last.report) = 4
  /\ Cardinality({r \in last.report : Stored(r)}) = 3
  /\ Len(activeDB.buffer) = 1
  /\ procs["f1"].pc = "locked"

(* C33: a flush that fails persists no row of its batch and keeps the      *)
(* buffer as it was, and a later flush on a store that works persists      *)
(* every buffered report: after it the buffer is empty and the table has a *)
(* row for the id of every report that was buffered.                       *)
C33_FailedFlushKeepsThenPersists ==
  [][last'.op = "flush"
       => /\ last'.result.Err => activeDB' = activeDB
          /\ (last.op = "flush" /\ last.result.Err)
               => /\ activeDB'.buffer = << >>
                  /\ \A i \in DOMAIN activeDB.buffer :
                       activeDB.buffer[i].ID \in DOMAIN activeDB'.rows]_vars

(* C34: every usage report that the pipeline accepts is appended to the    *)
(* active buffer store: after the step the buffer, or the table once the   *)
(* buffer was flushed, holds an entry of the report's user and upload.     *)
C34_AcceptedReportBuffered ==
  [][(last'.op = "report" /\ last'.result.Accepted)
       => \/ \E i \in DOMAIN activeDB'.buffer :
               /\ activeDB'.buffer[i].UserID = last'.report.UserID
               /\ activeDB'.buffer[i].Upload = last'.report.Upload
          \/ \E id \in DOMAIN activeDB'.rows :
               /\ activeDB'.rows[id].UserID = last'.report.UserID
               /\ activeDB'.rows[id].Upload = last'.report.Upload]_vars

(* C35: the penalty check of a report finds a penalty exactly when the     *)
(* user has an entry with expires_at > now; an entry with expires_at <=    *)
(* now is deleted by the check and no penalty is reported.                 *)
C35_PenaltyWhileExpiresAfterNow ==
  [][last'.op = "report"
       => \A u \in {last'.report.UserID} :
            /\ last'.result.Reason = "user has active penalty"
                 <=> (penalties[u] # None /\ penalties[u].ExpiresAt > now)
            /\ (penalties[u] # None /\ penalties[u].ExpiresAt <= now)
                 => GetPenaltyState(CurState, u, now).penalties[u] = None]_vars

(* C36: an accepted report for a session id that has an entry leaves the   *)
(* entry's started_at as it was set at creation and moves its last_seen_at *)
(* to now.                                                                 *)
C36_StartedAtKept ==
  [][(/\ last'.op = "report"
      /\ last'.result.Accepted
      /\ sessions[last'.report.UserID][last'.report.SessionID] # None)
       => \A old \in {sessions[last'.report.UserID][last'.report.SessionID]} :
          \A new \in {sessions'[last'.report.UserID][last'.report.SessionID]} :
            /\ new # None
            /\ new.StartedAt = old.StartedAt
            /\ new.LastSeenAt = now]_vars

(* C37: every lookup of one kind (user, node, service) for one identifier  *)
(* returns the same lock instance, the one the map holds for it, however   *)
(* the first-time lookups interleave.                                      *)
C37_SameLockInstance ==
  \A g, h \in LookupProcs :
    procs[g].pc = "returned"
      => /\ procs[g].lock # Nil
         /\ procs[g].lock = lockManager[procs[g].kind][procs[g].id]
         /\ (/\ procs[h].pc = "returned"
             /\ procs[h].kind = procs[g].kind
             /\ procs[h].id = procs[g].id) => procs[h].lock = procs[g].lock

(* Two first-time lookups of one key raced: both missed the Load, one of   *)
(* them lost the LoadOrStore and returned the other's lock.                *)
C37_Witness ==
  \E g, h \in LookupProcs :
    /\ g # h
    /\ procs[g].pc = "returned" /\ procs[h].pc = "returned"
    /\ procs[g].kind = procs[h].kind /\ procs[g].id = procs[h].id
    /\ procs[g].own # Nil /\ procs[h].own # Nil
    /\ procs[g].lock = procs[g].own
    /\ procs[h].lock = procs[g].own

(* Following parent_id from manager m reaches a stored manager without     *)
(* parent in at most n steps.                                              *)
RECURSIVE ReachesRoot(_, _)
ReachesRoot(m, n) ==
  IF m \notin DOMAIN managers THEN FALSE
  ELSE IF managers[m].parent_id \in {Nil, ""} THEN TRUE
  ELSE n > 0 /\ ReachesRoot(managers[m].parent_id, n - 1)

(* C38: after any sequence of CreateManager calls, successful or failed,   *)
(* the parent_id relation of the stored managers is acyclic: from every    *)
(* manager the parent links reach a manager without parent in finitely     *)
(* many steps.                                                             *)
C38_ParentRelationAcyclic ==
  \A m \in DOMAIN managers : ReachesRoot(m, Cardinality(DOMAIN managers))

(* A chain of three managers has been created and the last call, which     *)
(* named a parent that is not stored or an id that is, failed.             *)
C38_Witness ==
  /\ last.op = "create"
  /\ ~last.result.Ok
  /\ \E m \in DOMAIN managers :
       /\ managers[m].parent_id \in DOMAIN managers
       /\ managers[managers[m].parent_id].parent_id \in DOMAIN managers

(* Goroutine g can go on: it waits for nobody, or everyone it waits for    *)
(* is inside a call and can go on; n bounds the length of the chain.       *)
RECURSIVE CanProceed(_, _)
CanProceed(g, n) ==
  \/ WaitsFor(g) = {}
  \/ /\ n > 0
     /\ \A h \in WaitsFor(g) : procs[h].pc # 0 /\ CanProceed(h, n - 1)

C40_FlushExitedBeforeClose ==
  procs.activeClosed => procs.flusher # "flushing"

====
